---- MODULE Spec2Model ----
(***************************************************************************)
(* Window manager of textop (src/lib/display/wm.py): the ordered window    *)
(* list, the active window, the layout mode and the flyout controller,     *)
(* together with the taskbar handlers that drive them                      *)
(* (src/lib/display/bar.py, src/boot.py), the geometry kept on each window *)
(* (src/lib/display/window.py) and the tiling layouts                      *)
(* (src/lib/display/layout.py).                                            *)
(***************************************************************************)
EXTENDS Integers, Sequences, FiniteSets, TLC

(* ----------------------------- bounds ---------------------------------- *)
\* number of windows that are ever spawned in one behaviour
MaxSpawn == 3

\* number of windows spawned in the geometry specification
MaxGeom == 1

\* number of windows spawned in the specification of presses and releases
\* and in that of the taskbar with its notification in flight
MaxSession == 2

\* a press is followed while the window's width is within MaxGrow cells of
\* the initial one and its offset within MaxGrow + 1 cells of the centre
MaxGrow == 1

\* largest number of windows handed to a layout
MaxTiles == 50

\* largest small extent of the window container handed to a layout
MaxExtent == 6

(* ------------------------- program constants --------------------------- *)
\* Python's None for a window reference (window ids are 1, 2, ...)
None == 0

\* WindowManager.modes, in list order
modes == <<"float", "vstack", "hstack", "bsp", "bsp_alt", "ultra_wide", "ultra_tall">>

Modes == {modes[i] : i \in 1..Len(modes)}

\* APP_ID of the executables the taskbar launches
Apps == {"terminal", "notepad"}

Directions == {"up", "down", "left", "right"}

\* no flyout object (Python's None for active_flyout)
NoFlyout == [id |-> "None", windows |-> <<>>]

\* the StartMenu flyout created by StartButton.on_button_press
StartMenu == [id |-> "start-menu", windows |-> <<>>]

\* Python's None for a pair (an offset or a size)
NoPair == <<>>

\* a style dimension that is not set (styles.width = None)
Unset == -1

\* Window.init_width, Window.init_height
init_width == 80

init_height == 20

\* size of the window container in the state-machine specifications
TerminalSize == [width |-> 100, height |-> 30]

\* Window.MIN_WIDTH, Window.MIN_HEIGHT, Window.EDGE_MARGIN
MIN_WIDTH == 12

MIN_HEIGHT == 4

EDGE_MARGIN == 1

\* _resize_edge without an edge: the empty set of __init__ or None, which
\* the handlers only test for truth
NoEdge == "none"

\* Python's None for _last_hover_state
NoHover == [is_none |-> TRUE, edges |-> {}]

\* a hover state: the dict of the four edges, given by the edges it maps to
\* True
Hover(edges) == [is_none |-> FALSE, edges |-> edges]

\* the keys of the hover state, in the order the dict is built
Edges == <<"top", "bottom", "left", "right">>

\* the modes that install a layout
TilingModes == Modes \ {"float"}

VARIABLES
    windows,         \* window_container.children that are Windows, in order
    app_of,          \* window id -> executable.APP_ID
    minimized,       \* windows carrying the CSS class "minimized"
    active_cls,      \* windows carrying the CSS class "active"
    maximized,       \* windows with is_window_maximized (class "maximized")
    active_window,   \* WindowManager.active_window
    mode,            \* WindowManager.mode
    flyouts,         \* Flyout widgets mounted in the app
    active_flyout,   \* WindowManager.active_flyout
    taskbar_windows, \* Taskbar.active_windows (app id -> list of windows)
    nextId,          \* identity of the next Window object
    out,             \* calls forwarded to collaborators by the last operation
    geom,            \* window -> the fields and styles of the Window object
    viewport,        \* window_container.size
    placements,      \* result of the last Layout.arrange
    mouse_captured   \* App.mouse_captured: the window holding the pointer

vars == <<windows, app_of, minimized, active_cls, maximized, active_window,
          mode, flyouts, active_flyout, taskbar_windows, nextId, out,
          geom, viewport, placements, mouse_captured>>

(* ------------------------------ helpers -------------------------------- *)
Range(s) == {s[i] : i \in 1..Len(s)}

\* list.index, 1-based; 0 when absent (Python raises ValueError)
IndexOf(s, x) == IF x \in Range(s) THEN CHOOSE i \in 1..Len(s) : s[i] = x ELSE 0

Last(s) == s[Len(s)]

RemoveFrom(s, x) == SelectSeq(s, LAMBDA y : y # x)

\* s with x inserted so that it ends at position p (1-based)
InsertAt(s, p, x) == SubSeq(s, 1, p - 1) \o <<x>> \o SubSeq(s, p, Len(s))

Ev(e, w) == [ev |-> e, w |-> w]

\* the calls o contain a call e
HasEvent(o, e) == \E i \in 1..Len(o) : o[i].ev = e

\* the part of the manager that set_active_window and its callers work on
WM == [windows |-> windows, minimized |-> minimized, active_cls |-> active_cls,
       active_window |-> active_window, out |-> <<>>]

(* --------------------- WindowManager: pure steps ------------------------ *)
\* set_active_window without the early return for the window that is
\* already active
set_active_window_no_guard(s, w) ==
    [s EXCEPT !.active_cls = (@ \ {s.active_window}) \cup {w},
              !.minimized = @ \ {w},
              !.active_window = w,
              !.out = Append(@, Ev("focus_content", w))]

\* WindowManager.set_active_window
set_active_window(s, w) ==
    IF s.active_window = w
    THEN s
    ELSE [s EXCEPT !.active_cls = (@ \ {s.active_window}) \cup {w},
                   !.minimized = @ \ {w},
                   !.active_window = w,
                   !.out = Append(@, Ev("focus_content", w))]

\* the focus rule picking the first instead of the last eligible window
next_focus_target_first(s, w) ==
    LET remaining_windows == SelectSeq(s.windows, LAMBDA x : x # w /\ x \notin s.minimized)
    IN  IF Len(remaining_windows) > 0 THEN Head(remaining_windows) ELSE None

\* the "last non-minimized window other than w" rule shared by close_window
\* and handle_window_minimized
next_focus_target(s, w) ==
    LET remaining_windows == SelectSeq(s.windows, LAMBDA x : x # w /\ x \notin s.minimized)
    IN  IF Len(remaining_windows) > 0 THEN Last(remaining_windows) ELSE None

\* handle_window_minimized that only marks the window and keeps the focus
handle_window_minimized_keep_focus(s, w) ==
    [s EXCEPT !.minimized = @ \cup {w}]

\* WindowManager.handle_window_minimized
handle_window_minimized(s, w) ==
    LET s1 == [s EXCEPT !.minimized = @ \cup {w}]
        t  == next_focus_target(s1, w)
    IN  IF t # None
        THEN set_active_window(s1, t)
        ELSE [s1 EXCEPT !.active_window = None]

\* close_window that drops the focus without choosing a new target
close_window_no_refocus(s, w) ==
    [s EXCEPT !.windows = RemoveFrom(@, w),
              !.minimized = @ \ {w},
              !.active_cls = @ \ {w},
              !.active_window = None,
              !.out = <<Ev("set_focus_none", None), Ev("ActiveWindowsChanged", None)>>]

\* close_window without the early return for a window that has no parent
close_window_unchecked(s, w) ==
    LET t  == next_focus_target(s, w)
        s1 == [s EXCEPT !.out = Append(@, Ev("set_focus_none", None))]
        s2 == IF t # None
              THEN set_active_window(s1, t)
              ELSE [s1 EXCEPT !.active_window = None]
    IN  [s2 EXCEPT !.windows = RemoveFrom(@, w),
                   !.minimized = @ \ {w},
                   !.active_cls = @ \ {w},
                   !.out = Append(@, Ev("ActiveWindowsChanged", None))]

\* WindowManager.close_window; a window has a parent as long as it is a
\* child of the window container
close_window(s, w) ==
    IF w \notin Range(s.windows)
    THEN s
    ELSE LET t  == next_focus_target(s, w)
             s1 == [s EXCEPT !.out = Append(@, Ev("set_focus_none", None))]
             s2 == IF t # None
                   THEN set_active_window(s1, t)
                   ELSE [s1 EXCEPT !.active_window = None]
         IN  [s2 EXCEPT !.windows = RemoveFrom(@, w),
                        !.minimized = @ \ {w},
                        !.active_cls = @ \ {w},
                        !.out = Append(@, Ev("ActiveWindowsChanged", None))]

\* spawn_window that mounts the window without activating it
spawn_window_no_activate(s, w) ==
    [s EXCEPT !.windows = Append(@, w),
              !.out = Append(@, Ev("ActiveWindowsChanged", None))]

\* WindowManager.spawn_window; w is the new Window object
spawn_window(s, w) ==
    LET s1 == [s EXCEPT !.windows = Append(@, w)]
        s2 == set_active_window(s1, w)
    IN  [s2 EXCEPT !.out = Append(@, Ev("ActiveWindowsChanged", None))]

\* WindowManager.focus_cycle
focus_cycle(s, direction) ==
    IF Len(s.windows) = 0 \/ s.active_window = None
    THEN s
    ELSE LET n == Len(s.windows)
             current_index == IndexOf(s.windows, s.active_window) - 1
             next_index == (current_index + direction + 2 * n) % n
         IN  set_active_window(s, s.windows[next_index + 1])

\* _post_active_windows_update that lists every application the taskbar can
\* launch, with or without windows
active_windows_message_all_apps(ws, apps) ==
    [a \in Apps |-> SelectSeq(ws, LAMBDA w : apps[w] = a)]

\* WindowManager._post_active_windows_update: the grouping it posts
active_windows_message(ws, apps) ==
    [a \in {apps[w] : w \in Range(ws)} |-> SelectSeq(ws, LAMBDA w : apps[w] = a)]

\* change_mode that stops at the last mode of the list instead of wrapping
change_mode_no_wrap(cur, m, initial) ==
    IF ~initial
    THEN IF IndexOf(modes, cur) = Len(modes) THEN cur ELSE modes[IndexOf(modes, cur) + 1]
    ELSE IF m = "None" THEN "float" ELSE m

\* change_mode that installs a requested mode even without initial
change_mode_direct(cur, m, initial) ==
    IF m # "None" THEN m
    ELSE IF ~initial THEN modes[(IndexOf(modes, cur) % Len(modes)) + 1]
    ELSE "float"

\* WindowManager.change_mode: the mode it sets
change_mode(cur, m, initial) ==
    IF ~initial
    THEN modes[(IndexOf(modes, cur) % Len(modes)) + 1]
    ELSE IF m = "None" THEN "float" ELSE m

(* --------------------------- window geometry ----------------------------- *)
\* the fields Window.__init__ sets, with the styles of a new widget
Window_init ==
    [user_offset |-> NoPair, offset |-> NoPair, width |-> Unset, height |-> Unset,
     window_size |-> NoPair, window_offset |-> NoPair,
     is_window_dragging |-> FALSE, is_window_resizing |-> FALSE,
     drag_offset |-> <<0, 0>>, resize_edge |-> NoEdge,
     resize_start |-> <<0, 0>>, resize_origin |-> <<0, 0, 0, 0>>,
     last_hover_state |-> NoHover]

\* reading styles.offset: an offset that is not set reads as (0, 0)
styles_offset(g) == IF g.offset = NoPair THEN <<0, 0>> ELSE g.offset

\* _apply_styles_for_window that forgets the user's offset outside float
apply_styles_for_window_forget(g, m) ==
    IF m = "float"
    THEN [g EXCEPT !.offset = g.user_offset]
    ELSE [g EXCEPT !.offset = NoPair, !.user_offset = NoPair]

\* WindowManager._apply_styles_for_window: the offset style it writes
apply_styles_for_window(g, m) ==
    IF m = "float"
    THEN [g EXCEPT !.offset = g.user_offset]
    ELSE [g EXCEPT !.offset = NoPair]

\* _center_window of spawn_window
center_window(g, parent_size) ==
    LET offset_x == (parent_size.width - init_width) \div 2
        offset_y == (parent_size.height - init_height) \div 2
    IN  [g EXCEPT !.offset = <<offset_x, offset_y>>,
                  !.user_offset = <<offset_x, offset_y>>]

\* Window.on_mount
on_mount(g) ==
    [g EXCEPT !.window_offset = styles_offset(g),
              !.width = init_width, !.height = init_height]

\* geometry of the window spawn_window creates and mounts in mode m
spawn_geom(m, parent_size) ==
    on_mount(center_window(apply_styles_for_window(Window_init, m), parent_size))

\* TextTop.action_cycle_window_mode -> change_mode() on the mode and the
\* windows' styles st: the next mode, and every window restyled for it
cycle_window_mode(st) ==
    LET new_mode == change_mode(st.mode, "None", FALSE)
    IN  [mode |-> new_mode,
         geom |-> [w \in DOMAIN st.geom |->
                      apply_styles_for_window(st.geom[w], new_mode)]]

\* Window._move_window
move_window(g, new_offset) ==
    [g EXCEPT !.user_offset = new_offset, !.offset = new_offset]

\* handle_window_maximized whose restore only removes the class
handle_window_maximized_class_only(g, is_window_maximized, m) ==
    IF is_window_maximized
    THEN g
    ELSE [g EXCEPT !.width = Unset, !.height = Unset, !.offset = NoPair]

\* WindowManager.handle_window_maximized: the styles it writes
handle_window_maximized(g, is_window_maximized, m) ==
    IF is_window_maximized
    THEN IF m = "float"
         THEN [g EXCEPT !.offset = g.window_offset,
                        !.width = g.window_size[1], !.height = g.window_size[2]]
         ELSE g
    ELSE [g EXCEPT !.width = Unset, !.height = Unset, !.offset = NoPair]

\* toggle_maximize_window that drops the snapshot when it restores
toggle_maximize_window_clear(win, m, size) ==
    IF win.is_window_maximized
    THEN [g |-> [handle_window_maximized(win.g, TRUE, m) EXCEPT !.window_size = NoPair],
          is_window_maximized |-> FALSE]
    ELSE [g |-> handle_window_maximized(
                    [win.g EXCEPT !.window_size = size,
                                  !.window_offset = styles_offset(win.g)],
                    FALSE, m),
          is_window_maximized |-> TRUE]

\* Window.toggle_maximize_window on a window win (its geometry g and its
\* is_window_maximized flag) whose rendered size, self.size, is size
toggle_maximize_window(win, m, size) ==
    LET g1 == IF ~win.is_window_maximized
              THEN [win.g EXCEPT !.window_size = size,
                                 !.window_offset = styles_offset(win.g)]
              ELSE win.g
    IN  [g |-> handle_window_maximized(g1, win.is_window_maximized, m),
         is_window_maximized |-> ~win.is_window_maximized]

(* ------------------------- drag and resize sessions ---------------------- *)
\* a Window object together with the window holding the pointer
Captured(g, cap) == [g |-> g, mouse_captured |-> cap]

\* start_drag without the test for resize mode
start_drag_unguarded(w, g, cap, event_xy) ==
    Captured([g EXCEPT !.is_window_dragging = TRUE, !.drag_offset = event_xy], w)

\* Window.start_drag of window w; event_xy is (event.x, event.y)
start_drag(w, g, cap, event_xy) ==
    IF g.is_window_resizing
    THEN Captured(g, cap)
    ELSE Captured([g EXCEPT !.is_window_dragging = TRUE, !.drag_offset = event_xy], w)

\* TitleBar.on_mouse_down
TitleBar_on_mouse_down(w, g, cap, m, event_xy) ==
    IF m = "float" THEN start_drag(w, g, cap, event_xy) ELSE Captured(g, cap)

\* the first edge the hover state maps to True (the loop of on_mouse_down)
first_active_edge(hover) ==
    IF hover.edges = {} THEN NoEdge
    ELSE Edges[CHOOSE i \in 1..Len(Edges) :
                   /\ Edges[i] \in hover.edges
                   /\ \A j \in 1..(i - 1) : Edges[j] \notin hover.edges]

\* the resize branch of Window.on_mouse_down; screen is
\* (event.screen_x, event.screen_y)
begin_resize(w, g, cap, screen) ==
    LET edge == first_active_edge(g.last_hover_state)
    IN  IF edge # NoEdge
        THEN Captured([g EXCEPT !.resize_edge = edge,
                                !.resize_start = screen,
                                !.resize_origin = <<g.width, g.height,
                                                    styles_offset(g)[1],
                                                    styles_offset(g)[2]>>], w)
        ELSE Captured([g EXCEPT !.resize_edge = NoEdge], cap)

\* Window._update_edge_hover_state for the local coordinates (x, y) of the
\* pointer in a window of size size
update_edge_hover_state(g, local, size) ==
    IF g.is_window_resizing
    THEN LET x == local[1]
             y == local[2]
             on_top == 0 <= y /\ y < EDGE_MARGIN
             on_bottom == size[2] - EDGE_MARGIN <= y /\ y < size[2]
             on_left == 0 <= x /\ x < EDGE_MARGIN
             on_right == size[1] - EDGE_MARGIN <= x /\ x < size[1]
         IN  [g EXCEPT !.last_hover_state =
                 Hover((IF on_top THEN {"top"} ELSE {}) \cup
                       (IF on_bottom THEN {"bottom"} ELSE {}) \cup
                       (IF on_left THEN {"left"} ELSE {}) \cup
                       (IF on_right THEN {"right"} ELSE {}))]
    ELSE g

\* max that does not look at the minimum
second_of(a, b) == b

Max(a, b) == IF a >= b THEN a ELSE b

\* the resize branch moving the window by the whole pointer delta, also
\* when the size is clamped
resize_window_uncompensated(g, screen) ==
    LET dx == screen[1] - g.resize_start[1]
        dy == screen[2] - g.resize_start[2]
        width == g.resize_origin[1]
        height == g.resize_origin[2]
        x == g.resize_origin[3]
        y == g.resize_origin[4]
    IN  CASE g.resize_edge = "right" ->
                 [g EXCEPT !.width = Max(MIN_WIDTH, width + dx)]
          [] g.resize_edge = "left" ->
                 [g EXCEPT !.width = Max(MIN_WIDTH, width - dx),
                           !.offset = <<x + dx, y>>]
          [] g.resize_edge = "bottom" ->
                 [g EXCEPT !.height = Max(MIN_HEIGHT, height + dy)]
          [] g.resize_edge = "top" ->
                 [g EXCEPT !.height = Max(MIN_HEIGHT, height - dy),
                           !.offset = <<x, y + dy>>]

\* the resize branch of Window.on_mouse_move
resize_window(g, screen) ==
    LET dx == screen[1] - g.resize_start[1]
        dy == screen[2] - g.resize_start[2]
        width == g.resize_origin[1]
        height == g.resize_origin[2]
        x == g.resize_origin[3]
        y == g.resize_origin[4]
        new_width == Max(MIN_WIDTH, width - dx)
        dx_applied == new_width - (width - dx)
        new_height == Max(MIN_HEIGHT, height - dy)
        dy_applied == new_height - (height - dy)
    IN  CASE g.resize_edge = "right" ->
                 [g EXCEPT !.width = Max(MIN_WIDTH, width + dx)]
          [] g.resize_edge = "left" ->
                 [g EXCEPT !.width = new_width,
                           !.offset = <<x + dx - dx_applied, y>>]
          [] g.resize_edge = "bottom" ->
                 [g EXCEPT !.height = Max(MIN_HEIGHT, height + dy)]
          [] g.resize_edge = "top" ->
                 [g EXCEPT !.height = new_height,
                           !.offset = <<x, y + dy - dy_applied>>]

\* on_mouse_move that resizes from the window's current geometry instead of
\* the one captured at the press
on_mouse_move_from_current(g, is_minimized, screen, local, size) ==
    IF is_minimized THEN g
    ELSE IF g.is_window_dragging /\ ~g.is_window_resizing
    THEN move_window(g, <<screen[1] - g.drag_offset[1], screen[2] - g.drag_offset[2]>>)
    ELSE IF g.is_window_resizing /\ g.resize_edge # NoEdge
    THEN resize_window([g EXCEPT !.resize_origin =
                           <<g.width, g.height, styles_offset(g)[1], styles_offset(g)[2]>>],
                       screen)
    ELSE IF ~g.is_window_dragging
    THEN update_edge_hover_state(g, local, size)
    ELSE g

\* Window.on_mouse_move; is_minimized is has_class("minimized"), local the
\* result of _get_absolute_local_coords and size is self.size
on_mouse_move(g, is_minimized, screen, local, size) ==
    IF is_minimized THEN g
    ELSE IF g.is_window_dragging /\ ~g.is_window_resizing
    THEN move_window(g, <<screen[1] - g.drag_offset[1], screen[2] - g.drag_offset[2]>>)
    ELSE IF g.is_window_resizing /\ g.resize_edge # NoEdge
    THEN resize_window(g, screen)
    ELSE IF ~g.is_window_dragging
    THEN update_edge_hover_state(g, local, size)
    ELSE g

\* on_mouse_up that ends a drag but leaves the resize edge armed
on_mouse_up_drag_only(w, g, cap) ==
    IF g.is_window_dragging
    THEN Captured([g EXCEPT !.is_window_dragging = FALSE], None)
    ELSE Captured(g, cap)

\* Window.on_mouse_up
on_mouse_up(w, g, cap) ==
    IF g.is_window_dragging \/ g.resize_edge # NoEdge
    THEN Captured([g EXCEPT !.is_window_dragging = FALSE, !.resize_edge = NoEdge], None)
    ELSE Captured(g, cap)

\* the ctrl+r branch of Window.on_key
toggle_resize_mode(g) ==
    [g EXCEPT !.is_window_resizing = ~@, !.is_window_dragging = FALSE]

\* _set_offset of _increase_window_size
set_offset(g, new_x, new_y) ==
    [g EXCEPT !.offset = <<new_x, new_y>>,
              !.window_offset = <<new_x, new_y>>,
              !.user_offset = <<new_x, new_y>>]

\* Window._increase_window_size.  _to_cells raises for a width or a height
\* that is not set, before any style is written
increase_window_size(g, delta, direction) ==
    IF g.width = Unset \/ g.height = Unset THEN g
    ELSE LET h == g.height
             w == g.width
             x == styles_offset(g)[1]
             y == styles_offset(g)[2]
             new_w == Max(MIN_WIDTH, w + delta)
             shift_x == new_w - (w - delta)
             new_h == Max(MIN_HEIGHT, h + delta)
             shift_y == new_h - (h - delta)
         IN  CASE direction = "right" -> [g EXCEPT !.width = new_w]
               [] direction = "left" ->
                      [set_offset(g, x + delta - shift_x, y) EXCEPT !.width = new_w]
               [] direction = "top" ->
                      [set_offset(g, x, y + delta - shift_y) EXCEPT !.height = new_h]
               [] direction = "bottom" -> [g EXCEPT !.height = new_h]

(* -------------------------------- layouts -------------------------------- *)
Region(x, y, width, height) == [x |-> x, y |-> y, width |-> width, height |-> height]

\* Region.split_vertical(cut): the left part is cut columns wide
split_vertical(r, cut) ==
    <<Region(r.x, r.y, cut, r.height), Region(r.x + cut, r.y, r.width - cut, r.height)>>

\* Region.split_horizontal(cut): the top part is cut rows high
split_horizontal(r, cut) ==
    <<Region(r.x, r.y, r.width, cut), Region(r.x, r.y + cut, r.width, r.height - cut)>>

\* a leaf Node holding a widget
Leaf(widget) == [widget |-> widget, split_direction |-> "vertical", children |-> <<>>]

\* one iteration of the loop of BSPSpiralLayout._build_tree with the root
\* splitting horizontally
RECURSIVE split_last_node_flipped(_, _, _)
split_last_node_flipped(node, parent_direction, widget_to_add) ==
    IF node.children = <<>>
    THEN [widget |-> None,
          split_direction |-> IF parent_direction = "horizontal"
                              THEN "vertical" ELSE "horizontal",
          children |-> <<node, Leaf(widget_to_add)>>]
    ELSE [node EXCEPT !.children[2] =
              split_last_node_flipped(node.children[2], node.split_direction, widget_to_add)]

\* one iteration of the loop of BSPSpiralLayout._build_tree: last_node, the
\* leaf added last (the rightmost leaf), is replaced by an internal node
\* whose split direction is the opposite of its parent's; parent_direction is
\* "None" for a node without parent
RECURSIVE split_last_node(_, _, _)
split_last_node(node, parent_direction, widget_to_add) ==
    IF node.children = <<>>
    THEN [widget |-> None,
          split_direction |-> IF parent_direction = "vertical"
                              THEN "horizontal" ELSE "vertical",
          children |-> <<node, Leaf(widget_to_add)>>]
    ELSE [node EXCEPT !.children[2] =
              split_last_node(node.children[2], node.split_direction, widget_to_add)]

\* BSPSpiralLayout._build_tree on a non-empty list of widgets
RECURSIVE build_tree(_)
build_tree(flow_children) ==
    IF Len(flow_children) = 1
    THEN Leaf(flow_children[1])
    ELSE split_last_node(build_tree(SubSeq(flow_children, 1, Len(flow_children) - 1)),
                         "None", Last(flow_children))

\* BSPSpiralLayout._arrange_nodes giving both children the floor of half the
\* region
RECURSIVE arrange_nodes_halves(_, _)
arrange_nodes_halves(node, region) ==
    IF node.children = <<>>
    THEN <<[widget |-> node.widget, region |-> region]>>
    ELSE LET w == region.width \div 2
             h == region.height \div 2
             r == IF node.split_direction = "vertical"
                  THEN <<Region(region.x, region.y, w, region.height),
                         Region(region.x + w, region.y, w, region.height)>>
                  ELSE <<Region(region.x, region.y, region.width, h),
                         Region(region.x, region.y + h, region.width, h)>>
         IN  arrange_nodes_halves(node.children[1], r[1])
                 \o arrange_nodes_halves(node.children[2], r[2])

\* BSPSpiralLayout._arrange_nodes giving the first child the larger half
RECURSIVE arrange_nodes_round_up(_, _)
arrange_nodes_round_up(node, region) ==
    IF node.children = <<>>
    THEN <<[widget |-> node.widget, region |-> region]>>
    ELSE LET r == IF node.split_direction = "vertical"
                  THEN split_vertical(region, (region.width + 1) \div 2)
                  ELSE split_horizontal(region, (region.height + 1) \div 2)
         IN  arrange_nodes_round_up(node.children[1], r[1])
                 \o arrange_nodes_round_up(node.children[2], r[2])

\* BSPSpiralLayout._arrange_nodes followed by _get_leaf_nodes: the leaves in
\* tree order, each with the region assigned to it
RECURSIVE arrange_nodes(_, _)
arrange_nodes(node, region) ==
    IF node.children = <<>>
    THEN <<[widget |-> node.widget, region |-> region]>>
    ELSE LET r == IF node.split_direction = "vertical"
                  THEN split_vertical(region, region.width \div 2)
                  ELSE split_horizontal(region, region.height \div 2)
         IN  arrange_nodes(node.children[1], r[1]) \o arrange_nodes(node.children[2], r[2])

\* BSPSpiralLayout._get_leaf_nodes: the widgets of the leaves, in tree order
RECURSIVE get_leaf_nodes(_)
get_leaf_nodes(node) ==
    IF node.children = <<>>
    THEN <<node.widget>>
    ELSE get_leaf_nodes(node.children[1]) \o get_leaf_nodes(node.children[2])

\* BSPSpiralLayout.arrange: the region of every flow child, in tree order
bsp_regions(flow_children, size) ==
    IF flow_children = <<>> THEN <<>>
    ELSE arrange_nodes(build_tree(flow_children), Region(0, 0, size.width, size.height))

\* VerticalBSPSpiralLayout._build_tree: the rightmost node becomes internal
RECURSIVE vbsp_add(_, _)
vbsp_add(node, widget) ==
    IF node.children = <<>>
    THEN [widget |-> None, children |-> <<[widget |-> node.widget, children |-> <<>>],
                                          [widget |-> widget, children |-> <<>>]>>]
    ELSE [node EXCEPT !.children[2] = vbsp_add(node.children[2], widget)]

RECURSIVE vbsp_build_tree(_)
vbsp_build_tree(widgets) ==
    IF Len(widgets) = 1
    THEN [widget |-> widgets[1], children |-> <<>>]
    ELSE vbsp_add(vbsp_build_tree(SubSeq(widgets, 1, Len(widgets) - 1)), Last(widgets))

\* VerticalBSPSpiralLayout._arrange_nodes splitting left/right at even depth
RECURSIVE vbsp_arrange_nodes_vertical_first(_, _, _)
vbsp_arrange_nodes_vertical_first(node, region, depth) ==
    IF node.children = <<>>
    THEN <<[widget |-> node.widget, region |-> region]>>
    ELSE LET r == IF depth % 2 = 0
                  THEN split_vertical(region, region.width \div 2)
                  ELSE split_horizontal(region, region.height \div 2)
         IN  vbsp_arrange_nodes_vertical_first(node.children[1], r[1], depth + 1)
                 \o vbsp_arrange_nodes_vertical_first(node.children[2], r[2], depth + 1)

\* VerticalBSPSpiralLayout._arrange_nodes and _get_leaf_nodes
RECURSIVE vbsp_arrange_nodes(_, _, _)
vbsp_arrange_nodes(node, region, depth) ==
    IF node.children = <<>>
    THEN <<[widget |-> node.widget, region |-> region]>>
    ELSE LET r == IF depth % 2 = 0
                  THEN split_horizontal(region, region.height \div 2)
                  ELSE split_vertical(region, region.width \div 2)
         IN  vbsp_arrange_nodes(node.children[1], r[1], depth + 1)
                 \o vbsp_arrange_nodes(node.children[2], r[2], depth + 1)

\* VerticalBSPSpiralLayout.arrange
vbsp_regions(flow_children, size) ==
    IF flow_children = <<>> THEN <<>>
    ELSE vbsp_arrange_nodes(vbsp_build_tree(flow_children),
                            Region(0, 0, size.width, size.height), 0)

\* Tiled*Layout(gutter=0)
gutter == 0

\* the loop of Tiled*Layout.arrange that gives every segment the floor of
\* total / count
RECURSIVE tiled_segments_floor(_, _, _, _)
tiled_segments_floor(total, count, i, pos) ==
    IF i = count THEN <<>>
    ELSE LET extent == total \div count
         IN  <<[pos |-> pos, extent |-> extent]>>
                 \o tiled_segments_floor(total, count, i + 1, pos + extent + gutter)

\* the loop of Tiled*Layout.arrange leaving one cell of every segment out of
\* the widget's extent
RECURSIVE tiled_segments_inset(_, _, _, _)
tiled_segments_inset(total, count, i, pos) ==
    IF i = count THEN <<>>
    ELSE LET start == (total * i) \div count
             end == (total * (i + 1)) \div count
             extent == end - start
         IN  <<[pos |-> pos, extent |-> extent - 1]>>
                 \o tiled_segments_inset(total, count, i + 1, pos + extent + gutter)

\* the loop of TiledHorizontalLayout.arrange / TiledVerticalLayout.arrange
\* from index i, with the running coordinate pos (x or y)
RECURSIVE tiled_segments(_, _, _, _)
tiled_segments(total, count, i, pos) ==
    IF i = count THEN <<>>
    ELSE LET start == (total * i) \div count
             end == (total * (i + 1)) \div count
             extent == end - start
         IN  <<[pos |-> pos, extent |-> extent]>>
                 \o tiled_segments(total, count, i + 1, pos + extent + gutter)

\* TiledHorizontalLayout.arrange: windows side by side
tiled_horizontal_regions(flow_children, size) ==
    LET count == Len(flow_children)
        segs == tiled_segments(size.width - gutter * (count - 1), count, 0, 0)
    IN  [i \in 1..count |->
            [widget |-> flow_children[i],
             region |-> Region(segs[i].pos, 0, segs[i].extent, size.height)]]

\* TiledVerticalLayout.arrange: windows one above the other
tiled_vertical_regions(flow_children, size) ==
    LET count == Len(flow_children)
        segs == tiled_segments(size.height - gutter * (count - 1), count, 0, 0)
    IN  [i \in 1..count |->
            [widget |-> flow_children[i],
             region |-> Region(0, segs[i].pos, size.width, segs[i].extent)]]

\* the right stack of UltrawideLayout.arrange: every widget but the last gets
\* the floor of its share of what remains
RECURSIVE ultrawide_stack(_, _)
ultrawide_stack(stack_widgets, remaining_region) ==
    IF Len(stack_widgets) = 1
    THEN <<[widget |-> stack_widgets[1], region |-> remaining_region]>>
    ELSE LET pane_height == remaining_region.height \div Len(stack_widgets)
             r == split_horizontal(remaining_region, pane_height)
         IN  <<[widget |-> stack_widgets[1], region |-> r[1]]>>
                 \o ultrawide_stack(Tail(stack_widgets), r[2])

\* UltrawideLayout.arrange applying the master-pane rule from two windows on
ultrawide_regions_master_at_two(flow_children, size) ==
    LET count == Len(flow_children)
        full == Region(0, 0, size.width, size.height)
    IN  IF count = 0 THEN <<>>
        ELSE IF count = 1 THEN <<[widget |-> flow_children[1], region |-> full]>>
        ELSE LET master_width == size.width \div 2
                 side_width == (size.width - master_width) \div 2
                 right_column_x == side_width + master_width
             IN  <<[widget |-> flow_children[1],
                    region |-> Region(0, 0, side_width, size.height)],
                   [widget |-> flow_children[2],
                    region |-> Region(side_width, 0, master_width, size.height)]>>
                 \o (IF count = 2 THEN <<>>
                     ELSE ultrawide_stack(SubSeq(flow_children, 3, count),
                              Region(right_column_x, 0, size.width - right_column_x,
                                     size.height)))

\* UltrawideLayout.arrange with master_pane_fraction 0.5
ultrawide_regions(flow_children, size) ==
    LET count == Len(flow_children)
        full == Region(0, 0, size.width, size.height)
    IN  IF count = 0 THEN <<>>
        ELSE IF count = 1 THEN <<[widget |-> flow_children[1], region |-> full]>>
        ELSE IF count = 2
        THEN LET r == split_vertical(full, size.width \div 2)
             IN  <<[widget |-> flow_children[1], region |-> r[1]],
                   [widget |-> flow_children[2], region |-> r[2]]>>
        ELSE LET master_width == size.width \div 2
                 side_width == (size.width - master_width) \div 2
                 right_column_x == side_width + master_width
             IN  <<[widget |-> flow_children[1],
                    region |-> Region(0, 0, side_width, size.height)],
                   [widget |-> flow_children[2],
                    region |-> Region(side_width, 0, master_width, size.height)]>>
                 \o ultrawide_stack(SubSeq(flow_children, 3, count),
                        Region(right_column_x, 0, size.width - right_column_x, size.height))

\* UltratallLayout.arrange giving the top row a quarter of the height
ultratall_regions_quarter(flow_children, size) ==
    LET count == Len(flow_children)
        full == Region(0, 0, size.width, size.height)
    IN  IF count = 0 THEN <<>>
        ELSE IF count = 1 THEN <<[widget |-> flow_children[1], region |-> full]>>
        ELSE IF count = 2
        THEN LET r == split_horizontal(full, size.height \div 2)
             IN  <<[widget |-> flow_children[1], region |-> r[1]],
                   [widget |-> flow_children[2], region |-> r[2]]>>
        ELSE LET master_height == size.height \div 2
                 side_height == size.height \div 4
                 bottom_row_y == side_height + master_height
                 stack_count == count - 2
                 segs == tiled_segments(size.width, stack_count, 0, 0)
             IN  <<[widget |-> flow_children[1],
                    region |-> Region(0, 0, size.width, side_height)],
                   [widget |-> flow_children[2],
                    region |-> Region(0, side_height, size.width, master_height)]>>
                 \o [i \in 1..stack_count |->
                        [widget |-> flow_children[i + 2],
                         region |-> Region(segs[i].pos, bottom_row_y, segs[i].extent,
                                           size.height - bottom_row_y)]]

\* UltratallLayout.arrange with master_pane_fraction 0.5
ultratall_regions(flow_children, size) ==
    LET count == Len(flow_children)
        full == Region(0, 0, size.width, size.height)
    IN  IF count = 0 THEN <<>>
        ELSE IF count = 1 THEN <<[widget |-> flow_children[1], region |-> full]>>
        ELSE IF count = 2
        THEN LET r == split_horizontal(full, size.height \div 2)
             IN  <<[widget |-> flow_children[1], region |-> r[1]],
                   [widget |-> flow_children[2], region |-> r[2]]>>
        ELSE LET master_height == size.height \div 2
                 side_height == (size.height - master_height) \div 2
                 bottom_row_y == side_height + master_height
                 stack_count == count - 2
                 segs == tiled_segments(size.width, stack_count, 0, 0)
             IN  <<[widget |-> flow_children[1],
                    region |-> Region(0, 0, size.width, side_height)],
                   [widget |-> flow_children[2],
                    region |-> Region(0, side_height, size.width, master_height)]>>
                 \o [i \in 1..stack_count |->
                        [widget |-> flow_children[i + 2],
                         region |-> Region(segs[i].pos, bottom_row_y, segs[i].extent,
                                           size.height - bottom_row_y)]]

\* the region the layout of mode m computes for every flow child.
\* change_mode names the layouts VerticalStackLayout, HorizontalStackLayout,
\* BSPLayout and BSPAltLayout; layout.py defines them as TiledVerticalLayout,
\* TiledHorizontalLayout, BSPSpiralLayout and VerticalBSPSpiralLayout.
layout_regions(m, flow_children, size) ==
    CASE m = "vstack" -> tiled_vertical_regions(flow_children, size)
      [] m = "hstack" -> tiled_horizontal_regions(flow_children, size)
      [] m = "bsp" -> bsp_regions(flow_children, size)
      [] m = "bsp_alt" -> vbsp_regions(flow_children, size)
      [] m = "ultra_wide" -> ultrawide_regions(flow_children, size)
      [] m = "ultra_tall" -> ultratall_regions(flow_children, size)

\* the layouts whose placement loop resolves styles.offset instead of using
\* NULL_OFFSET
OffsetModes == {"bsp", "ultra_wide"}

\* Layout.arrange of the layout of mode m: the WidgetPlacements (region and
\* offset) of the flow children; g gives every widget its styles
arrange(m, flow_children, g, size) ==
    LET regions == layout_regions(m, flow_children, size)
    IN  [i \in 1..Len(regions) |->
            [widget |-> regions[i].widget,
             region |-> regions[i].region,
             offset |-> IF m \in OffsetModes
                        THEN styles_offset(g[regions[i].widget])
                        ELSE <<0, 0>>]]

\* the region of widget w among the placements ps
region_of(ps, w) ==
    LET i == CHOOSE i \in 1..Len(ps) : ps[i].widget = w
    IN  ps[i].region

\* the rectangle in which a placement is drawn: its region moved by its offset
drawn(p) ==
    Region(p.region.x + p.offset[1], p.region.y + p.offset[2],
           p.region.width, p.region.height)

\* Widget.size of a window with geometry g: the size of its placement under a
\* layout, its width and height styles in float, the container's size when
\* these are not set or the window is maximized
size_of(g, is_window_maximized, m, ws, w, parent_size) ==
    IF is_window_maximized THEN <<parent_size.width, parent_size.height>>
    ELSE IF m = "float"
    THEN IF g.width = Unset
         THEN <<parent_size.width, parent_size.height>>
         ELSE <<g.width, g.height>>
    ELSE LET r == region_of(layout_regions(m, ws, parent_size), w)
         IN  <<r.width, r.height>>

(* ------------------------- directional neighbours ------------------------ *)
Forward(d) == d \in {"right", "down"}

\* the split axis a direction moves along
AxisOf(d) == IF d \in {"left", "right"} THEN "vertical" ELSE "horizontal"

\* split axis of the k-th internal node of the BSP chain (k = 1 is the root):
\* the root of bsp splits vertically, the root of bsp_alt horizontally, and
\* the axis alternates with depth
SplitAxis(m, k) ==
    IF (m = "bsp") = (k % 2 = 1) THEN "vertical" ELSE "horizontal"

\* Climb from internal node k of a chain over n leaves; isFirst tells whether
\* the climb arrives from k's first child.  Leaf i < n is the first child of
\* internal node i, leaf n the second child of internal node n - 1.
RECURSIVE bsp_climb(_, _, _, _, _)
bsp_climb(m, n, k, isFirst, d) ==
    IF SplitAxis(m, k) = AxisOf(d) /\ isFirst = Forward(d)
    THEN IF Forward(d) THEN k + 1 ELSE k
    ELSE IF k = 1 THEN 0 ELSE bsp_climb(m, n, k - 1, FALSE, d)

\* index of the neighbour of leaf i among n leaves, 0 when there is none
bsp_neighbor(m, n, i, d) ==
    IF n < 2 THEN 0
    ELSE IF i < n THEN bsp_climb(m, n, i, TRUE, d)
    ELSE bsp_climb(m, n, n - 1, FALSE, d)

\* neighbour along a stack: the adjacent index on the stacking axis
stack_neighbor(m, n, i, d) ==
    LET axisDirs == IF m = "vstack" THEN {"up", "down"} ELSE {"left", "right"}
    IN  IF d \notin axisDirs THEN 0
        ELSE IF Forward(d) THEN (IF i < n THEN i + 1 ELSE 0)
        ELSE i - 1

\* layout.get_neighbor(window, direction) of the layout installed for mode m
get_neighbor(m, ws, w, d) ==
    LET n == Len(ws)
        i == IndexOf(ws, w)
        j == IF i = 0 THEN 0
             ELSE IF m \in {"vstack", "hstack"} THEN stack_neighbor(m, n, i, d)
             ELSE IF m \in {"bsp", "bsp_alt"} THEN bsp_neighbor(m, n, i, d)
             ELSE 0
    IN  IF j = 0 THEN None ELSE ws[j]

\* WindowManager._get_visual_neighbor
get_visual_neighbor(s, m, d) ==
    IF s.active_window = None THEN None
    ELSE IF m \in {"float", "ultra_wide", "ultra_tall"} THEN None
    ELSE get_neighbor(m, s.windows, s.active_window, d)

\* focus_direction that falls back to the first window when the layout
\* reports no neighbour
focus_direction_fallback(s, m, d) ==
    IF s.active_window = None \/ m = "float"
    THEN s
    ELSE LET neighbor == get_visual_neighbor(s, m, d)
         IN  IF neighbor # None THEN set_active_window(s, neighbor)
             ELSE set_active_window(s, s.windows[1])

\* WindowManager.focus_direction
focus_direction(s, m, d) ==
    IF s.active_window = None \/ m = "float"
    THEN s
    ELSE LET neighbor == get_visual_neighbor(s, m, d)
         IN  IF neighbor # None THEN set_active_window(s, neighbor) ELSE s

\* Widget.move_child(child, before=sibling) / move_child(child, after=sibling)
move_child(ws, child, sibling, before) ==
    LET rest == RemoveFrom(ws, child)
        p == IndexOf(rest, sibling)
    IN  IF child = sibling THEN ws
        ELSE IF before THEN InsertAt(rest, p, child)
        ELSE InsertAt(rest, p + 1, child)

\* move_window_direction that places the window before the neighbour in
\* every direction
move_window_direction_before(s, m, d) ==
    IF s.active_window = None \/ m = "float"
    THEN s
    ELSE LET neighbor == get_visual_neighbor(s, m, d)
         IN  IF neighbor # None
             THEN [s EXCEPT !.windows = move_child(@, s.active_window, neighbor, TRUE)]
             ELSE s

\* WindowManager.move_window_direction
move_window_direction(s, m, d) ==
    IF s.active_window = None \/ m = "float"
    THEN s
    ELSE LET neighbor == get_visual_neighbor(s, m, d)
         IN  IF neighbor # None
             THEN [s EXCEPT !.windows =
                       move_child(@, s.active_window, neighbor, d \in {"up", "left"})]
             ELSE s

(* --------------------------- flyout controller --------------------------- *)
\* close_active_flyout that removes the widgets but keeps the reference
close_active_flyout_keep_ref(fs, af) ==
    IF fs = {}
    THEN [flyouts |-> fs, active_flyout |-> af, out |-> <<>>]
    ELSE [flyouts |-> {}, active_flyout |-> af,
          out |-> <<Ev("set_focus_none", None)>>]

\* WindowManager.close_active_flyout on the pair <<mounted flyouts, active_flyout>>
close_active_flyout(fs, af) ==
    IF fs = {}
    THEN [flyouts |-> fs, active_flyout |-> af, out |-> <<>>]
    ELSE [flyouts |-> {}, active_flyout |-> NoFlyout,
          out |-> <<Ev("set_focus_none", None)>>]

\* request_flyout without the toggle: the requested flyout is always opened
request_flyout_no_toggle(fs, af, new_flyout) ==
    LET closed == IF af # NoFlyout THEN close_active_flyout(fs, af)
                  ELSE [flyouts |-> fs, active_flyout |-> af, out |-> <<>>]
    IN  [flyouts |-> closed.flyouts \cup {new_flyout},
         active_flyout |-> new_flyout,
         out |-> Append(closed.out, Ev("flyout_focus", None))]

\* WindowManager.request_flyout
request_flyout(fs, af, new_flyout) ==
    LET closed == IF af # NoFlyout THEN close_active_flyout(fs, af)
                  ELSE [flyouts |-> fs, active_flyout |-> af, out |-> <<>>]
    IN  IF af # NoFlyout /\ af.id = new_flyout.id
        THEN closed
        ELSE [flyouts |-> closed.flyouts \cup {new_flyout},
              active_flyout |-> new_flyout,
              out |-> Append(closed.out, Ev("flyout_focus", None))]

\* Taskbar.update_active_windows: an open ActiveWindowList is closed
update_active_windows(fs, af) ==
    IF \E f \in fs : f.id \in Apps
    THEN close_active_flyout(fs, af)
    ELSE [flyouts |-> fs, active_flyout |-> af, out |-> <<>>]

(* -------------------------------- state ---------------------------------- *)
\* the Window object w: its geometry and its is_window_maximized flag
Win(w) == [g |-> geom[w], is_window_maximized |-> w \in maximized]

\* self.size of window w in the current state
Size(w) == size_of(geom[w], w \in maximized, mode, windows, w, viewport)

Init ==
    /\ windows = <<>>
    /\ app_of = <<>>
    /\ minimized = {}
    /\ active_cls = {}
    /\ maximized = {}
    /\ active_window = None
    /\ mode = "float"
    /\ flyouts = {}
    /\ active_flyout = NoFlyout
    /\ taskbar_windows = <<>>
    /\ nextId = 1
    /\ out = <<>>
    /\ geom = <<>>
    /\ viewport = TerminalSize
    /\ placements = <<>>
    /\ mouse_captured = None

\* write a manager record back to the variables
Commit(s) ==
    /\ windows' = s.windows
    /\ minimized' = s.minimized
    /\ active_cls' = s.active_cls
    /\ active_window' = s.active_window

\* TextTop.update_taskbar -> Taskbar.update_active_windows on the message
\* posted by _post_active_windows_update
Notify(s, apps, outSoFar) ==
    LET fl == update_active_windows(flyouts, active_flyout)
    IN  /\ taskbar_windows' = active_windows_message(s.windows, apps)
        /\ flyouts' = fl.flyouts
        /\ active_flyout' = fl.active_flyout
        /\ out' = outSoFar \o fl.out

(* ------------------------------- actions --------------------------------- *)
\* WindowManager.spawn_window; the ActiveWindowsChanged message it posts is
\* recorded in out
SpawnWindow(app) ==
    /\ nextId <= MaxSpawn
    /\ LET s == spawn_window(WM, nextId)
       IN  /\ Commit(s)
           /\ app_of' = [w \in Range(s.windows) |-> IF w = nextId THEN app ELSE app_of[w]]
           /\ geom' = [w \in Range(s.windows) |->
                          IF w = nextId THEN spawn_geom(mode, viewport) ELSE geom[w]]
           /\ out' = s.out
    /\ nextId' = nextId + 1
    /\ UNCHANGED <<maximized, mode, flyouts, active_flyout, taskbar_windows,
                   viewport, placements, mouse_captured>>

\* Window.close_window / TextTop.action_sys_kill -> WindowManager.close_window
\* for a Window object that has been created; it may have been closed already
CloseWindow(w) ==
    /\ w \in 1..(nextId - 1)
    /\ LET s == close_window(WM, w)
       IN  /\ Commit(s)
           /\ app_of' = [x \in Range(s.windows) |-> app_of[x]]
           /\ geom' = [x \in Range(s.windows) |-> geom[x]]
           /\ out' = s.out
    /\ maximized' = maximized \ {w}
    /\ UNCHANGED <<mode, nextId, flyouts, active_flyout, taskbar_windows,
                   viewport, placements, mouse_captured>>

\* TextTop.on_run: spawn_window, then the posted message reaches the taskbar
RunApp(app) ==
    /\ nextId <= MaxSpawn
    /\ LET s == spawn_window(WM, nextId)
           apps == [w \in Range(s.windows) |-> IF w = nextId THEN app ELSE app_of[w]]
       IN  /\ Commit(s)
           /\ app_of' = apps
           /\ geom' = [w \in Range(s.windows) |->
                          IF w = nextId THEN spawn_geom(mode, viewport) ELSE geom[w]]
           /\ Notify(s, apps, s.out)
    /\ nextId' = nextId + 1
    /\ UNCHANGED <<maximized, mode, viewport, placements, mouse_captured>>

\* TextTop.action_sys_kill: close_window, then the posted message reaches the
\* taskbar
SysKill(w) ==
    /\ w \in 1..(nextId - 1)
    /\ LET s == close_window(WM, w)
           apps == [x \in Range(s.windows) |-> app_of[x]]
       IN  /\ Commit(s)
           /\ app_of' = apps
           /\ geom' = [x \in Range(s.windows) |-> geom[x]]
           /\ IF HasEvent(s.out, "ActiveWindowsChanged")
              THEN Notify(s, apps, s.out)
              ELSE /\ out' = s.out
                   /\ UNCHANGED <<taskbar_windows, flyouts, active_flyout>>
    /\ maximized' = maximized \ {w}
    /\ UNCHANGED <<mode, nextId, viewport, placements, mouse_captured>>

\* Window.on_mouse_down -> WindowManager.set_active_window
SetActiveWindow(w) ==
    /\ w \in Range(windows)
    /\ w \notin minimized
    /\ LET s == set_active_window(WM, w)
       IN  Commit(s) /\ out' = s.out
    /\ UNCHANGED <<app_of, maximized, mode, flyouts, active_flyout,
                   taskbar_windows, nextId>>
    /\ UNCHANGED <<geom, viewport, placements, mouse_captured>>

\* Window.minimize_window -> WindowManager.handle_window_minimized
MinimizeWindow(w) ==
    /\ w \in Range(windows)
    /\ LET s == handle_window_minimized(WM, w)
       IN  Commit(s) /\ out' = s.out
    /\ UNCHANGED <<app_of, maximized, mode, flyouts, active_flyout,
                   taskbar_windows, nextId>>
    /\ UNCHANGED <<geom, viewport, placements, mouse_captured>>

\* Window.toggle_maximize_window -> WindowManager.handle_window_maximized
ToggleMaximizeWindow(w) ==
    /\ w \in Range(windows)
    /\ LET win == toggle_maximize_window(Win(w), mode, Size(w))
       IN  /\ geom' = [geom EXCEPT ![w] = win.g]
           /\ maximized' = IF win.is_window_maximized
                            THEN maximized \cup {w} ELSE maximized \ {w}
    /\ out' = <<>>
    /\ UNCHANGED <<windows, app_of, minimized, active_cls, active_window, mode,
                   flyouts, active_flyout, taskbar_windows, nextId,
                   viewport, placements, mouse_captured>>

\* Window.on_mouse_move of a drag started on the title bar (float mode only)
\* -> Window._move_window
MoveWindow(w, new_offset) ==
    /\ w \in Range(windows)
    /\ w \notin minimized
    /\ mode = "float"
    /\ geom' = [geom EXCEPT ![w] = move_window(geom[w], new_offset)]
    /\ out' = <<>>
    /\ UNCHANGED <<windows, app_of, minimized, active_cls, maximized, active_window,
                   mode, flyouts, active_flyout, taskbar_windows, nextId,
                   viewport, placements, mouse_captured>>

\* WindowManager.on_mount (initial) / TextTop.action_cycle_window_mode
ChangeMode(m, initial) ==
    /\ mode' = change_mode(mode, m, initial)
    /\ geom' = [w \in Range(windows) |-> apply_styles_for_window(geom[w], mode')]
    /\ out' = <<Ev("update_mode", None)>>
    /\ UNCHANGED <<windows, app_of, minimized, active_cls, maximized,
                   active_window, flyouts, active_flyout, taskbar_windows, nextId,
                   viewport, placements, mouse_captured>>

\* TextTop.action_cycle_focus -> WindowManager.focus_cycle
FocusCycle(direction) ==
    /\ LET s == focus_cycle(WM, direction)
       IN  Commit(s) /\ out' = s.out
    /\ UNCHANGED <<app_of, maximized, mode, flyouts, active_flyout,
                   taskbar_windows, nextId>>
    /\ UNCHANGED <<geom, viewport, placements, mouse_captured>>

\* TextTop.action_focus_direction -> WindowManager.focus_direction
FocusDirection(d) ==
    /\ LET s == focus_direction(WM, mode, d)
       IN  Commit(s) /\ out' = s.out
    /\ UNCHANGED <<app_of, maximized, mode, flyouts, active_flyout,
                   taskbar_windows, nextId>>
    /\ UNCHANGED <<geom, viewport, placements, mouse_captured>>

\* TextTop.action_move_window_direction -> WindowManager.move_window_direction
MoveWindowDirection(d) ==
    /\ LET s == move_window_direction(WM, mode, d)
       IN  Commit(s) /\ out' = s.out
    /\ UNCHANGED <<app_of, maximized, mode, flyouts, active_flyout,
                   taskbar_windows, nextId>>
    /\ UNCHANGED <<geom, viewport, placements, mouse_captured>>

\* StartButton.on_button_press -> WindowManager.request_flyout(StartMenu)
StartButtonPress ==
    /\ LET r == request_flyout(flyouts, active_flyout, StartMenu)
       IN  /\ flyouts' = r.flyouts
           /\ active_flyout' = r.active_flyout
           /\ out' = r.out
    /\ UNCHANGED <<windows, app_of, minimized, active_cls, maximized,
                   active_window, mode, taskbar_windows, nextId>>
    /\ UNCHANGED <<geom, viewport, placements, mouse_captured>>

\* Taskbar.handle_button_press with at least one window of the app:
\* an ActiveWindowList flyout is requested
TaskbarButtonPress(app) ==
    /\ app \in DOMAIN taskbar_windows
    /\ LET f == [id |-> app, windows |-> taskbar_windows[app]]
           r == request_flyout(flyouts, active_flyout, f)
       IN  /\ flyouts' = r.flyouts
           /\ active_flyout' = r.active_flyout
           /\ out' = r.out
    /\ UNCHANGED <<windows, app_of, minimized, active_cls, maximized,
                   active_window, mode, taskbar_windows, nextId>>
    /\ UNCHANGED <<geom, viewport, placements, mouse_captured>>

\* ActiveWindowList.on_option_list_option_selected for the entry of window w
OptionSelected(w) ==
    /\ \E f \in flyouts : f.id \in Apps /\ w \in Range(f.windows)
    /\ LET s == set_active_window(WM, w)
           r == close_active_flyout(flyouts, active_flyout)
       IN  /\ Commit(s)
           /\ flyouts' = r.flyouts
           /\ active_flyout' = r.active_flyout
           /\ out' = s.out \o r.out
    /\ UNCHANGED <<app_of, maximized, mode, taskbar_windows, nextId>>
    /\ UNCHANGED <<geom, viewport, placements, mouse_captured>>

\* escape key in a flyout / TextTop.on_mouse_down outside the flyout
\* -> WindowManager.close_active_flyout
CloseActiveFlyout ==
    /\ LET r == close_active_flyout(flyouts, active_flyout)
       IN  /\ flyouts' = r.flyouts
           /\ active_flyout' = r.active_flyout
           /\ out' = r.out
    /\ UNCHANGED <<windows, app_of, minimized, active_cls, maximized,
                   active_window, mode, taskbar_windows, nextId>>
    /\ UNCHANGED <<geom, viewport, placements, mouse_captured>>

\* the window manager proper: the operations on the window list, the focus
\* and the mode, with one application kind.  Maximize/restore and drags act
\* on the flag and the styles of one window only; they are part of NextGeom.
Next ==
    \/ \E app \in {"terminal"} : SpawnWindow(app)
    \/ \E w \in 1..MaxSpawn : CloseWindow(w)
    \/ \E w \in 1..MaxSpawn : SetActiveWindow(w)
    \/ \E w \in 1..MaxSpawn : MinimizeWindow(w)
    \/ \E m \in Modes \cup {"None"}, initial \in BOOLEAN : ChangeMode(m, initial)
    \/ \E direction \in {1, -1} : FocusCycle(direction)
    \/ \E d \in Directions : FocusDirection(d)
    \/ \E d \in Directions : MoveWindowDirection(d)

Spec == Init /\ [][Next]_vars

\* the taskbar and the flyout controller, in float mode
NextFlyout ==
    \/ \E app \in Apps : RunApp(app)
    \/ \E w \in 1..MaxSpawn : SysKill(w)
    \/ \E w \in 1..MaxSpawn : SetActiveWindow(w)
    \/ \E w \in 1..MaxSpawn : MinimizeWindow(w)
    \/ StartButtonPress
    \/ \E app \in Apps : TaskbarButtonPress(app)
    \/ \E w \in 1..MaxSpawn : OptionSelected(w)
    \/ CloseActiveFlyout

SpecFlyout == Init /\ [][NextFlyout]_vars

\* the positions a drag leaves a window at
DragOffsets == {<<2, 1>>, <<30, 12>>}

\* window geometry: spawn, close, mode changes, drags, maximize/restore and
\* reordering, with at most MaxGeom windows
NextGeom ==
    \/ \E app \in {"terminal"} : nextId <= MaxGeom /\ SpawnWindow(app)
    \/ \E w \in 1..MaxGeom : CloseWindow(w)
    \/ \E m \in Modes \cup {"None"}, initial \in BOOLEAN : ChangeMode(m, initial)
    \/ \E w \in 1..MaxGeom, new_offset \in DragOffsets : MoveWindow(w, new_offset)
    \/ \E w \in 1..MaxGeom : ToggleMaximizeWindow(w)
    \/ \E d \in Directions : MoveWindowDirection(d)

SpecGeom == Init /\ [][NextGeom]_vars

\* TextTop.update_taskbar -> Taskbar.update_active_windows, when the
\* ActiveWindowsChanged message posted by the last change of the window list
\* is delivered: until then the taskbar holds the grouping of an older message
UpdateTaskbar ==
    /\ taskbar_windows # active_windows_message(windows, app_of)
    /\ Notify(WM, app_of, <<>>)
    /\ UNCHANGED <<windows, app_of, minimized, active_cls, maximized, active_window,
                   mode, nextId, geom, viewport, placements, mouse_captured>>

\* the taskbar and its window lists while the notification of a spawn or a
\* close is still in flight: the message is posted to a queue and handled
\* later, so a button press or a selection can be handled before it
NextNotify ==
    \/ \E app \in Apps : nextId <= MaxSession /\ SpawnWindow(app)
    \/ \E w \in 1..MaxSession : CloseWindow(w)
    \/ UpdateTaskbar
    \/ \E app \in Apps : TaskbarButtonPress(app)
    \/ \E w \in 1..MaxSession : OptionSelected(w)
    \/ CloseActiveFlyout

SpecNotify == Init /\ [][NextNotify]_vars

\* the flags of a window: spawn, close, mode changes, maximize/restore,
\* minimize and activation by a click, with at most MaxGeom windows
NextMaxMin ==
    \/ \E app \in {"terminal"} : nextId <= MaxGeom /\ SpawnWindow(app)
    \/ \E w \in 1..MaxGeom : CloseWindow(w)
    \/ \E m \in Modes \cup {"None"}, initial \in BOOLEAN : ChangeMode(m, initial)
    \/ \E w \in 1..MaxGeom : ToggleMaximizeWindow(w)
    \/ \E w \in 1..MaxGeom : MinimizeWindow(w)
    \/ \E w \in 1..MaxGeom : SetActiveWindow(w)

SpecMaxMin == Init /\ [][NextMaxMin]_vars

\* where the pointer is on the screen when an event is sent
PointerPositions == {<<10, 5>>, <<11, 5>>}

\* where a press lands in the title bar (event.x, event.y)
TitlePositions == {<<1, 0>>}

\* where the pointer is in the window when it hovers: on the left edge, on
\* the right edge of a window of the initial width, inside
LocalPositions == {<<0, 5>>, <<init_width - 1, 5>>, <<5, 5>>}

Abs(n) == IF n >= 0 THEN n ELSE -n

\* the guard that keeps the geometry bounded: the width and the height are
\* within MaxGrow cells of the initial ones or at the minimum, and the
\* offset, when set, is within MaxGrow + 1 cells of the centred one or of
\* the one a window shrunk to the minimum from its left or top edge has
GeometryInBounds(g) ==
    LET centre == center_window(g, TerminalSize).offset
        near(a, b) == Abs(a - b) <= MaxGrow + 1
    IN  /\ Abs(g.width - init_width) <= MaxGrow \/ g.width = MIN_WIDTH
        /\ Abs(g.height - init_height) <= MaxGrow \/ g.height = MIN_HEIGHT
        /\ g.offset # NoPair =>
               /\ \/ near(g.offset[1], centre[1])
                  \/ near(g.offset[1], centre[1] + init_width - MIN_WIDTH)
               /\ \/ near(g.offset[2], centre[2])
                  \/ near(g.offset[2], centre[2] + init_height - MIN_HEIGHT)

\* a press delivered to window w: TitleBar.on_mouse_down when it lands on the
\* title bar (on_title), then Window.on_mouse_down, to which the event
\* bubbles.  While a window holds the pointer every mouse event is sent to
\* that window itself.  inside is self.region.contains(screen)
MouseDown(w, on_title, event_xy, screen, inside) ==
    /\ w \in Range(windows)
    /\ mouse_captured \in {None, w}
    /\ on_title => mouse_captured = None
    /\ GeometryInBounds(geom[w])
    /\ LET c1 == IF on_title
                 THEN TitleBar_on_mouse_down(w, geom[w], mouse_captured, mode, event_xy)
                 ELSE Captured(geom[w], mouse_captured)
           c2 == IF c1.g.is_window_resizing
                 THEN begin_resize(w, c1.g, c1.mouse_captured, screen)
                 ELSE c1
           s == IF ~c1.g.is_window_resizing /\ inside /\ w \notin minimized
                THEN set_active_window(WM, w)
                ELSE WM
       IN  /\ geom' = [geom EXCEPT ![w] = c2.g]
           /\ mouse_captured' = c2.mouse_captured
           /\ Commit(s)
           /\ out' = s.out
    /\ UNCHANGED <<app_of, maximized, mode, flyouts, active_flyout,
                   taskbar_windows, nextId, viewport, placements>>

\* Window.on_mouse_move of window w
MouseMove(w, screen, local) ==
    /\ w \in Range(windows)
    /\ mouse_captured \in {None, w}
    /\ geom' = [geom EXCEPT ![w] =
                    on_mouse_move(geom[w], w \in minimized, screen, local, Size(w))]
    /\ out' = <<>>
    /\ UNCHANGED <<windows, app_of, minimized, active_cls, maximized, active_window,
                   mode, flyouts, active_flyout, taskbar_windows, nextId,
                   viewport, placements, mouse_captured>>

\* Window.on_mouse_up of window w
MouseUp(w) ==
    /\ w \in Range(windows)
    /\ mouse_captured \in {None, w}
    /\ LET c == on_mouse_up(w, geom[w], mouse_captured)
       IN  /\ geom' = [geom EXCEPT ![w] = c.g]
           /\ mouse_captured' = c.mouse_captured
           /\ out' = IF c.g # geom[w] THEN <<Ev("release_mouse", w)>> ELSE <<>>
    /\ UNCHANGED <<windows, app_of, minimized, active_cls, maximized, active_window,
                   mode, flyouts, active_flyout, taskbar_windows, nextId,
                   viewport, placements>>

\* Window.on_key for ctrl+r; the key reaches the window that has the focus
KeyResizeMode(w) ==
    /\ w \in Range(windows)
    /\ w = active_window
    /\ geom' = [geom EXCEPT ![w] = toggle_resize_mode(geom[w])]
    /\ out' = <<>>
    /\ UNCHANGED <<windows, app_of, minimized, active_cls, maximized, active_window,
                   mode, flyouts, active_flyout, taskbar_windows, nextId,
                   viewport, placements, mouse_captured>>

\* presses, releases and the resize-mode key on at most MaxSession windows,
\* with mode changes; no pointer moves, so that the geometry stays as spawned
NextPress ==
    \/ \E app \in {"terminal"} : nextId <= MaxSession /\ SpawnWindow(app)
    \/ ChangeMode("None", FALSE)
    \/ \E w \in 1..MaxSession, on_title, inside \in BOOLEAN,
           event_xy \in TitlePositions, screen \in PointerPositions :
           MouseDown(w, on_title, event_xy, screen, inside)
    \/ \E w \in 1..MaxSession : MouseUp(w)
    \/ \E w \in 1..MaxSession : KeyResizeMode(w)

SpecPress == Init /\ [][NextPress]_vars

\* the manager after one window has been spawned in float mode
InitSession ==
    /\ windows = <<1>>
    /\ app_of = <<"terminal">>
    /\ minimized = {}
    /\ active_cls = {1}
    /\ maximized = {}
    /\ active_window = 1
    /\ mode = "float"
    /\ flyouts = {}
    /\ active_flyout = NoFlyout
    /\ taskbar_windows = <<>>
    /\ nextId = 2
    /\ out = <<>>
    /\ geom = <<spawn_geom("float", TerminalSize)>>
    /\ viewport = TerminalSize
    /\ placements = <<>>
    /\ mouse_captured = None

\* the drag and resize sessions of one window: presses, pointer moves,
\* releases and the resize-mode key, with mode changes
NextSession ==
    \/ ChangeMode("None", FALSE)
    \/ \E on_title, inside \in BOOLEAN, event_xy \in TitlePositions,
           screen \in PointerPositions :
           MouseDown(1, on_title, event_xy, screen, inside)
    \/ \E screen \in PointerPositions, local \in LocalPositions :
           MouseMove(1, screen, local)
    \/ MouseUp(1)
    \/ KeyResizeMode(1)

SpecSession == InitSession /\ [][NextSession]_vars

\* the geometries from which a resize is followed: the window has its
\* initial or its minimum width and height and is where it was spawned or
\* where shrinking it to the minimum from the left or the top edge leaves it
AtRest(g) ==
    LET centre == center_window(g, TerminalSize).offset
    IN  /\ g.width \in {init_width, MIN_WIDTH}
        /\ g.height \in {init_height, MIN_HEIGHT}
        /\ styles_offset(g)[1] \in {centre[1], centre[1] + init_width - MIN_WIDTH}
        /\ styles_offset(g)[2] \in {centre[2], centre[2] + init_height - MIN_HEIGHT}

\* Window.on_key for ctrl+h/j/k/l and ctrl+shift+h/j/k/l
\* -> Window._increase_window_size(delta, direction)
KeyResize(w, delta, direction) ==
    /\ w \in Range(windows)
    /\ w = active_window
    /\ AtRest(geom[w])
    /\ geom' = [geom EXCEPT ![w] = increase_window_size(geom[w], delta, direction)]
    /\ out' = <<>>
    /\ UNCHANGED <<windows, app_of, minimized, active_cls, maximized, active_window,
                   mode, flyouts, active_flyout, taskbar_windows, nextId,
                   viewport, placements, mouse_captured>>

\* where the pointer is on the screen when an event of a resize is sent
ResizePositions == {<<10, 5>>, <<11, 6>>, <<90, 29>>}

\* where the pointer is in a window of size size when it hovers: on the
\* left, right, top and bottom edge, and inside
ResizeLocals(size) ==
    {<<0, 2>>, <<size[1] - 1, 2>>, <<5, 0>>, <<5, size[2] - 1>>, <<5, 2>>}

\* resizing one window in float mode: the resize-mode key, presses, pointer
\* moves and releases on the four edges, and the resize keys
NextResize ==
    \/ KeyResizeMode(1)
    \/ \E event_xy \in TitlePositions, screen \in ResizePositions :
           AtRest(geom[1]) /\ MouseDown(1, FALSE, event_xy, screen, TRUE)
    \/ \E screen \in ResizePositions, local \in ResizeLocals(Size(1)) :
           MouseMove(1, screen, local)
    \/ MouseUp(1)
    \/ \E delta \in {1, -1}, direction \in {"left", "right", "top", "bottom"} :
           KeyResize(1, delta, direction)

SpecResize == InitSession /\ [][NextResize]_vars

\* widths and heights of the window container: the small ones and those of
\* common terminals
ViewportWidths == (0..MaxExtent) \cup {80}

ViewportHeights == (0..MaxExtent) \cup {24}

\* the layouts on their own: windows 1..n spawned in that order, a container
\* of any of the sizes above and any layout installed
InitLayout ==
    /\ windows \in {[i \in 1..n |-> i] : n \in 0..MaxTiles}
    /\ viewport \in [width : ViewportWidths, height : ViewportHeights]
    /\ mode \in TilingModes
    /\ app_of = [w \in Range(windows) |-> "terminal"]
    /\ geom = [w \in Range(windows) |->
                  apply_styles_for_window(spawn_geom("float", viewport), mode)]
    /\ minimized = {}
    /\ maximized = {}
    /\ active_window = IF windows = <<>> THEN None ELSE Last(windows)
    /\ active_cls = IF windows = <<>> THEN {} ELSE {Last(windows)}
    /\ flyouts = {}
    /\ active_flyout = NoFlyout
    /\ taskbar_windows = <<>>
    /\ nextId = Len(windows) + 1
    /\ out = <<>>
    /\ placements = <<>>
    /\ mouse_captured = None

\* the layout pass of the window container: Layout.arrange of the installed
\* layout on the container's children and size
Arrange ==
    /\ placements' = arrange(mode, windows, geom, viewport)
    /\ out' = <<Ev("arrange", None)>>
    /\ UNCHANGED <<windows, app_of, minimized, active_cls, maximized, active_window,
                   mode, flyouts, active_flyout, taskbar_windows, nextId, geom,
                   viewport, mouse_captured>>

NextLayout == Arrange

SpecLayout == InitLayout /\ [][NextLayout]_vars

(* ============================ properties ================================= *)
\* the last window of ws, other than w, that is not minimized in mins
LastEligibleExcept(ws, mins, w) ==
    LET E == {i \in 1..Len(ws) : ws[i] # w /\ ws[i] \notin mins}
    IN  IF E = {} THEN None
        ELSE ws[CHOOSE i \in E : \A j \in E : j <= i]

\* C1: an active window is always a member of the window list and is not
\* minimized
C1_ActiveIsEligibleMember ==
    active_window # None =>
        /\ active_window \in Range(windows)
        /\ active_window \notin minimized

\* a window has been closed, another is minimized, and one is active
C1_Witness ==
    /\ active_window # None
    /\ minimized # {}
    /\ nextId > Len(windows) + 1

\* C2: whenever some window of the list is not minimized there is an active
\* window
C2_ActiveUnlessNoneEligible ==
    (\E w \in Range(windows) : w \notin minimized) => active_window # None

\* a window was minimized while another eligible window existed, and the
\* focus moved to it
C2_Witness ==
    /\ minimized # {}
    /\ \E w \in Range(windows) : w \notin minimized
    /\ active_window # None
    /\ out = <<Ev("focus_content", active_window)>>

\* C3: the "active" flag is carried by exactly the active window, and by no
\* window when there is none
C3_ActiveFlagIsActiveWindow ==
    active_cls = (IF active_window = None THEN {} ELSE {active_window})

\* C4: closing or minimizing the active window makes the last other
\* non-minimized window of the list active, or None when there is none
C4_RefocusLastEligible ==
    [][\A w \in 1..MaxSpawn :
          (w = active_window /\ (CloseWindow(w) \/ MinimizeWindow(w)))
              => active_window' = LastEligibleExcept(windows, minimized, w)]_vars

\* C among [A, B, C] was active and has been closed: B is active
C4_Witness ==
    /\ windows = <<1, 2>>
    /\ nextId = 4
    /\ active_window = 2
    /\ out = <<Ev("set_focus_none", None), Ev("focus_content", 2),
               Ev("ActiveWindowsChanged", None)>>

\* C5: closing or minimizing a window that is not active leaves the active
\* window unchanged
C5_NonActiveKeepsActive ==
    [][\A w \in 1..MaxSpawn :
          (w # active_window /\ (CloseWindow(w) \/ MinimizeWindow(w)))
              => active_window' = active_window]_vars

\* C6: spawn appends the new window, makes it active and posts the
\* window-list notification
C6_SpawnAppendsAndActivates ==
    [][nextId' # nextId =>
          /\ windows' = Append(windows, nextId)
          /\ active_window' = nextId
          /\ nextId \notin minimized'
          /\ HasEvent(out', "ActiveWindowsChanged")]_vars

\* a window was spawned while every existing window was minimized
C6_Witness ==
    /\ Len(windows) >= 2
    /\ active_window = Last(windows)
    /\ active_window = nextId - 1
    /\ \A w \in Range(windows) : w # active_window => w \in minimized
    /\ HasEvent(out, "ActiveWindowsChanged")

\* C7: a second set_active_window(w) right after the first changes nothing
\* and forwards no focus call
C7_SetActiveIdempotent ==
    \A w \in Range(windows) :
        LET once == [set_active_window(WM, w) EXCEPT !.out = <<>>]
        IN  set_active_window(once, w) = once

\* a window other than the newest has just been activated by a focus call
C7_Witness ==
    /\ Len(windows) >= 2
    /\ minimized = {}
    /\ nextId = Len(windows) + 1
    /\ active_window # None
    /\ active_window # Last(windows)
    /\ out = <<Ev("focus_content", active_window)>>

\* C8: at most one flyout is open, and active_flyout is None when none is
C8_AtMostOneFlyout ==
    /\ Cardinality(flyouts) <= 1
    /\ flyouts = {} => active_flyout = NoFlyout

\* a flyout has just been closed
C8_Witness ==
    /\ flyouts = {}
    /\ active_flyout = NoFlyout
    /\ out = <<Ev("set_focus_none", None)>>

\* the outcome C9 states for a request of flyout f
RequestOutcome(f) ==
    IF active_flyout # NoFlyout /\ active_flyout.id = f.id
    THEN flyouts' = {} /\ active_flyout' = NoFlyout
    ELSE flyouts' = {f} /\ active_flyout' = f

\* C9: requesting the active flyout again closes it; requesting another one
\* closes the open flyout and opens the new one
C9_RequestTogglesOrReplaces ==
    [][/\ StartButtonPress => RequestOutcome(StartMenu)
       /\ \A app \in Apps :
              TaskbarButtonPress(app) =>
                  RequestOutcome([id |-> app, windows |-> taskbar_windows[app]])]_vars

\* a window list replaced another open flyout
C9_Witness ==
    /\ active_flyout.id \in Apps
    /\ flyouts = {active_flyout}
    /\ out = <<Ev("set_focus_none", None), Ev("flyout_focus", None)>>

\* the fixed cycle of modes
NextInCycle ==
    [m \in Modes |->
        CASE m = "float" -> "vstack"
          [] m = "vstack" -> "hstack"
          [] m = "hstack" -> "bsp"
          [] m = "bsp" -> "bsp_alt"
          [] m = "bsp_alt" -> "ultra_wide"
          [] m = "ultra_wide" -> "ultra_tall"
          [] m = "ultra_tall" -> "float"]

\* C10 as stated: change_mode(newMode) leaves the manager in newMode
C10_ModeIsRequested ==
    [][\A m \in Modes : ChangeMode(m, FALSE) => mode' = m]_vars

\* C10 amended: change_mode(newMode, initial) installs newMode only with
\* initial set; otherwise it installs the successor of the current mode
C10_ModeCyclesUnlessInitial ==
    [][\A m \in Modes :
          /\ ChangeMode(m, TRUE) => mode' = m
          /\ ChangeMode(m, FALSE) => mode' = NextInCycle[mode]]_vars

\* the mode has been changed with windows present
C10_Witness ==
    /\ mode = "ultra_tall"
    /\ windows # <<>>

\* some change_mode call is taking place
ModeChanges == \E m \in Modes \cup {"None"}, initial \in BOOLEAN : ChangeMode(m, initial)

\* C11: a mode change never modifies a window's user_offset, and a change
\* into float places every window at its user_offset; so leaving float and
\* coming back with nothing but mode changes in between restores the offsets
C11_ModeChangeKeepsUserOffset ==
    [][ModeChanges =>
          \A w \in Range(windows) :
              /\ geom'[w].user_offset = geom[w].user_offset
              /\ mode' = "float" => geom'[w].offset = geom[w].user_offset]_vars

\* float has just been entered with a window the user had dragged
C11_Witness ==
    /\ mode = "float"
    /\ out = <<Ev("update_mode", None)>>
    /\ \E w \in Range(windows) :
           /\ geom[w].user_offset \in DragOffsets
           /\ geom[w].offset = geom[w].user_offset
           /\ geom[w].window_offset = <<0, 0>>

C13_SnapshotNoneUnlessMaximized ==
    \A w \in Range(windows) : w \notin maximized => geom[w].window_size = NoPair

\* C13 amended: maximize overwrites the snapshot with the window's size and
\* offset at that moment, and restore leaves the snapshot in place
C13_SnapshotTakenAndKept ==
    [][\A w \in 1..MaxGeom :
          ToggleMaximizeWindow(w) =>
              IF w \in maximized
              THEN /\ geom'[w].window_size = geom[w].window_size
                   /\ geom'[w].window_offset = geom[w].window_offset
                   /\ geom[w].window_size # NoPair
              ELSE /\ geom'[w].window_size = Size(w)
                   /\ geom'[w].window_offset = styles_offset(geom[w])]_vars

\* a window maximized and restored under a layout still holds the snapshot
\* of its tile
C13_Witness ==
    /\ mode \in TilingModes
    /\ out = <<>>
    /\ \E w \in Range(windows) :
           /\ w \notin maximized
           /\ geom[w].window_size = <<viewport.width, viewport.height>>
           /\ geom[w].width = Unset

\* C14: under a layout, every window that is not maximized is drawn exactly
\* on the rectangle the layout's arrange computes for it
C14_TiledWindowsOnStrategyRect ==
    mode \in TilingModes =>
        LET ps == arrange(mode, windows, geom, viewport)
        IN  \A i \in 1..Len(ps) :
                ps[i].widget \notin maximized => drawn(ps[i]) = ps[i].region

\* C15: focus_direction and move_window_direction change nothing of the
\* manager (window order, flags, active window, mode, geometry) in float
\* mode, without an active window, or when the layout reports no neighbour
C15_DirectionOpsNoOp ==
    [][\A d \in Directions :
          (/\ FocusDirection(d) \/ MoveWindowDirection(d)
           /\ \/ mode = "float"
              \/ active_window = None
              \/ get_visual_neighbor(WM, mode, d) = None)
              => UNCHANGED <<windows, app_of, minimized, active_cls, maximized,
                             active_window, mode, geom, nextId>>]_vars

\* under bsp the first of three windows is active and has no neighbour on
\* its left; the last operation forwarded nothing
C15_Witness ==
    /\ mode = "bsp"
    /\ Len(windows) = 3
    /\ active_window = windows[1]
    /\ get_visual_neighbor(WM, mode, "left") = None
    /\ get_visual_neighbor(WM, mode, "right") # None
    /\ out = <<>>

\* C16: with a neighbour N of the active window A under a layout,
\* move_window_direction puts A immediately before N for up and left and
\* immediately after N for down and right; the other windows keep their
\* relative order and the active window stays A
C16_MovePlacesNextToNeighbor ==
    [][\A d \in Directions :
          LET A == active_window
              N == get_visual_neighbor(WM, mode, d)
          IN  (MoveWindowDirection(d) /\ mode # "float" /\ A # None /\ N # None) =>
                  /\ IF d \in {"up", "left"}
                     THEN IndexOf(windows', A) = IndexOf(windows', N) - 1
                     ELSE IndexOf(windows', A) = IndexOf(windows', N) + 1
                  /\ Len(windows') = Len(windows)
                  /\ Range(windows') = Range(windows)
                  /\ RemoveFrom(windows', A) = RemoveFrom(windows, A)
                  /\ active_window' = A]_vars

\* the window spawned first has been moved behind the two spawned after it
\* and is still the active one
C16_Witness ==
    /\ mode \in TilingModes
    /\ windows = <<2, 3, 1>>
    /\ active_window = 1
    /\ out = <<>>

Arranged == out = <<Ev("arrange", None)>>

\* position and size of a region along the stacking axis of mode m
StartOn(m, r) == IF m = "hstack" THEN r.x ELSE r.y

ExtentOn(m, r) == IF m = "hstack" THEN r.width ELSE r.height

RECURSIVE SumExtents(_, _)
SumExtents(m, ps) ==
    IF ps = <<>> THEN 0 ELSE ExtentOn(m, Head(ps).region) + SumExtents(m, Tail(ps))

\* what C18 states of the placements of n windows under hstack or vstack
StackSegmentsExact ==
    LET n == Len(windows)
        total == ExtentOn(mode, Region(0, 0, viewport.width, viewport.height))
    IN  /\ Len(placements) = n
        /\ \A k \in 1..n :
               LET i == k - 1
                   r == placements[k].region
               IN  /\ placements[k].widget = windows[k]
                   /\ ExtentOn(mode, r) = (total * (i + 1)) \div n - (total * i) \div n
                   /\ StartOn(mode, r) =
                          IF k = 1 THEN 0
                          ELSE StartOn(mode, placements[k - 1].region)
                                   + ExtentOn(mode, placements[k - 1].region)
        /\ SumExtents(mode, placements) = total

Overlap(a, b) ==
    /\ a.x < b.x + b.width /\ b.x < a.x + a.width
    /\ a.y < b.y + b.height /\ b.y < a.y + a.height

\* region r lies inside the container
Inside(r) ==
    /\ r.width >= 0 /\ r.height >= 0
    /\ r.x >= 0 /\ r.y >= 0
    /\ r.x + r.width <= viewport.width
    /\ r.y + r.height <= viewport.height

RECURSIVE SumAreas(_)
SumAreas(ps) ==
    IF ps = <<>> THEN 0
    ELSE Head(ps).region.width * Head(ps).region.height + SumAreas(Tail(ps))

\* C19: for one or more windows the regions bsp assigns do not overlap and
\* cover the container exactly (they lie inside it and their areas add up to
\* its area)
C19_BspTilesViewport ==
    (Arranged /\ mode = "bsp" /\ Len(windows) >= 1) =>
        /\ Len(placements) = Len(windows)
        /\ \A i \in 1..Len(placements) : Inside(placements[i].region)
        /\ \A i, j \in 1..Len(placements) :
               i < j => ~Overlap(placements[i].region, placements[j].region)
        /\ SumAreas(placements) = viewport.width * viewport.height

\* twenty windows arranged by bsp in an 80x24 container
C19_Witness ==
    /\ Arranged
    /\ mode = "bsp"
    /\ Len(windows) = 20
    /\ viewport = [width |-> 80, height |-> 24]
    /\ Len(placements) = 20

\* the regions C20 describes for the first k windows: the first window owns
\* the container; window i >= 1 (counting from 0) splits the region of window
\* i - 1, left/right when i is odd and top/bottom when i is even, the older
\* window keeping the first part of floor(extent / 2)
RECURSIVE SpiralRegions(_)
SpiralRegions(k) ==
    IF k = 1 THEN <<Region(0, 0, viewport.width, viewport.height)>>
    ELSE LET prev == SpiralRegions(k - 1)
             i == k - 1
             r == prev[k - 1]
             halves ==
                 IF i % 2 = 1
                 THEN <<Region(r.x, r.y, r.width \div 2, r.height),
                        Region(r.x + r.width \div 2, r.y,
                               r.width - r.width \div 2, r.height)>>
                 ELSE <<Region(r.x, r.y, r.width, r.height \div 2),
                        Region(r.x, r.y + r.height \div 2,
                               r.width, r.height - r.height \div 2)>>
         IN  SubSeq(prev, 1, k - 2) \o halves

\* C20: the regions bsp assigns are those of the incremental splitting of the
\* most recently inserted leaf, alternating vertical and horizontal splits
\* with the window index
C20_BspSplitsLastLeaf ==
    (Arranged /\ mode = "bsp" /\ Len(windows) >= 1) =>
        LET expected == SpiralRegions(Len(windows))
        IN  /\ Len(placements) = Len(windows)
            /\ \A k \in 1..Len(windows) :
                   /\ placements[k].widget = windows[k]
                   /\ placements[k].region = expected[k]

\* four windows in 80x24: the fourth is the right half of the lower right
\* quarter
C20_Witness ==
    /\ Arranged
    /\ mode = "bsp"
    /\ Len(windows) = 4
    /\ viewport = [width |-> 80, height |-> 24]
    /\ placements[1].region = Region(0, 0, 40, 24)
    /\ placements[2].region = Region(40, 0, 40, 12)
    /\ placements[3].region = Region(40, 12, 20, 12)
    /\ placements[4].region = Region(60, 12, 20, 12)

\* x and y, width and height of a region exchanged
Transpose(r) == Region(r.y, r.x, r.height, r.width)

\* the chain below node: every first child is a leaf, and the widgets of the
\* leaves read ws from top to bottom
RECURSIVE RightLeaning(_, _)
RightLeaning(node, ws) ==
    IF node.children = <<>>
    THEN ws = <<node.widget>>
    ELSE /\ Len(ws) >= 2
         /\ node.children[1].children = <<>>
         /\ node.children[1].widget = Head(ws)
         /\ RightLeaning(node.children[2], Tail(ws))

\* C21: bsp_alt builds a right-leaning chain and splits top/bottom at the
\* root, alternating with depth; the region it assigns to window i in a
\* container W x H is the transpose of the region bsp assigns to window i in
\* a container H x W
C21_BspAltIsTransposedBsp ==
    (Arranged /\ mode = "bsp_alt") =>
        LET swapped == [width |-> viewport.height, height |-> viewport.width]
            expected == bsp_regions(windows, swapped)
        IN  /\ Len(placements) = Len(windows)
            /\ Len(expected) = Len(windows)
            /\ windows # <<>> => RightLeaning(vbsp_build_tree(windows), windows)
            /\ Len(windows) >= 2 =>
                   placements[1].region =
                       Region(0, 0, viewport.width, viewport.height \div 2)
            /\ \A k \in 1..Len(windows) :
                   /\ placements[k].widget = windows[k]
                   /\ expected[k].widget = windows[k]
                   /\ placements[k].region = Transpose(expected[k].region)

\* four windows in 80x24 under bsp_alt: the fourth is the lower half of the
\* lower right quarter
C21_Witness ==
    /\ Arranged
    /\ mode = "bsp_alt"
    /\ Len(windows) = 4
    /\ viewport = [width |-> 80, height |-> 24]
    /\ placements[1].region = Region(0, 0, 80, 12)
    /\ placements[2].region = Region(0, 12, 40, 12)
    /\ placements[3].region = Region(40, 12, 40, 6)
    /\ placements[4].region = Region(40, 18, 40, 6)

\* the container as a region
Full == Region(0, 0, viewport.width, viewport.height)

\* C22: ultra_wide and ultra_tall give no placement for 0 windows, the whole
\* container for 1 window, and for 2 windows cut the long axis (the width
\* for ultra_wide, the height for ultra_tall) into floor(extent / 2) for the
\* first window and the rest for the second
C22_UltraDegenerateCases ==
    (Arranged /\ mode \in {"ultra_wide", "ultra_tall"} /\ Len(windows) <= 2) =>
        /\ Len(placements) = Len(windows)
        /\ \A k \in 1..Len(windows) : placements[k].widget = windows[k]
        /\ Len(windows) = 1 => placements[1].region = Full
        /\ Len(windows) = 2 =>
               LET W == viewport.width
                   H == viewport.height
               IN  IF mode = "ultra_wide"
                   THEN /\ placements[1].region = Region(0, 0, W \div 2, H)
                        /\ placements[2].region = Region(W \div 2, 0, W - W \div 2, H)
                   ELSE /\ placements[1].region = Region(0, 0, W, H \div 2)
                        /\ placements[2].region = Region(0, H \div 2, W, H - H \div 2)

\* two windows under ultra_wide in a container 5 columns wide: 2 and 3 columns
C22_Witness ==
    /\ Arranged
    /\ mode = "ultra_wide"
    /\ Len(windows) = 2
    /\ viewport.width = 5
    /\ placements[1].region.width = 2
    /\ placements[2].region.x = 2
    /\ placements[2].region.width = 3

\* a region of ultra_wide or ultra_tall read with the long axis of the mode
\* as x: ultra_tall regions are transposed
OnLongAxis(m, r) == IF m = "ultra_wide" THEN r ELSE Transpose(r)

\* C23: with 3 or more windows ultra_wide and ultra_tall cut the long axis
\* into three panes that follow each other and whose extents add up to the
\* container's extent: the first window gets the side pane of
\* floor((extent - master) / 2), the second the master pane of
\* floor(extent / 2), the others share the last pane; the regions do not
\* overlap and cover the container
C23_UltraThreePanes ==
    (Arranged /\ mode \in {"ultra_wide", "ultra_tall"} /\ Len(windows) >= 3) =>
        LET n == Len(windows)
            whole == OnLongAxis(mode, Full)
            extent == whole.width
            master == extent \div 2
            side == (extent - master) \div 2
            rest == extent - side - master
            R(k) == OnLongAxis(mode, placements[k].region)
        IN  /\ Len(placements) = n
            /\ \A k \in 1..n : placements[k].widget = windows[k]
            /\ R(1) = Region(0, 0, side, whole.height)
            /\ R(2) = Region(side, 0, master, whole.height)
            /\ \A k \in 3..n : R(k).x = side + master /\ R(k).width = rest
            /\ R(1).width + R(2).width + R(3).width = extent
            /\ \A k \in 1..n : Inside(placements[k].region)
            /\ \A i, j \in 1..n :
                   i < j => ~Overlap(placements[i].region, placements[j].region)
            /\ SumAreas(placements) = viewport.width * viewport.height

\* five windows under ultra_tall in 80x24: rows of 6, 12 and 6 lines
C23_Witness ==
    /\ Arranged
    /\ mode = "ultra_tall"
    /\ Len(windows) = 5
    /\ viewport = [width |-> 80, height |-> 24]
    /\ placements[1].region = Region(0, 0, 80, 6)
    /\ placements[2].region = Region(0, 6, 80, 12)
    /\ placements[5].region = Region(53, 18, 27, 6)

\* C24: with k >= 1 windows of index >= 2 under ultra_wide or ultra_tall,
\* the j-th of them gets (total*(j+1)) div k - (total*j) div k along the
\* perpendicular axis of the last pane, and ultra_wide in a container W x H
\* is the transpose of ultra_tall in a container H x W
C24_UltraStackRemainderRule ==
    (Arranged /\ mode \in {"ultra_wide", "ultra_tall"} /\ Len(windows) >= 3) =>
        LET n == Len(windows)
            k == n - 2
            total == OnLongAxis(mode, Full).height
            swapped == [width |-> viewport.height, height |-> viewport.width]
            wide == ultrawide_regions(windows, viewport)
            tall == ultratall_regions(windows, swapped)
        IN  /\ Len(placements) = n
            /\ \A j \in 0..(k - 1) :
                   OnLongAxis(mode, placements[j + 3].region).height =
                       (total * (j + 1)) \div k - (total * j) \div k
            /\ \A i \in 1..n : wide[i].region = Transpose(tall[i].region)

\* C25: after every operation no window is both maximized and minimized
C25_NeverMaximizedAndMinimized ==
    \A w \in Range(windows) : ~(w \in maximized /\ w \in minimized)

\* the windows with is_window_dragging or is_window_resizing set
InSession == {w \in Range(windows) :
                 geom[w].is_window_dragging \/ geom[w].is_window_resizing}

\* C26: at most one window of the manager has is_window_dragging or
\* is_window_resizing set
C26_OneSessionGlobally == Cardinality(InSession) <= 1

\* C27: whenever a window has is_window_dragging set the mode is float
C27_DragOnlyInFloat ==
    \A w \in Range(windows) : geom[w].is_window_dragging => mode = "float"

\* a drag or a resize of the window is under way
SessionOpen(g) == g.is_window_dragging \/ g.resize_edge # NoEdge

\* the styles that place and size the window, and its remembered offset
Geometry(g) == <<g.offset, g.width, g.height, g.user_offset>>

\* some press is being delivered to window w
Pressed(w) ==
    \E on_title, inside \in BOOLEAN, event_xy \in TitlePositions,
       screen \in PointerPositions : MouseDown(w, on_title, event_xy, screen, inside)

\* some pointer move is being delivered to window w
Moved(w) ==
    \E screen \in PointerPositions, local \in LocalPositions : MouseMove(w, screen, local)

\* C28: a release ends the drag and the resize session of the window; from
\* then on, until a press is delivered to the window, no session is open, and
\* a pointer move without an open session changes neither the window's
\* styles (offset, width, height) nor its user_offset
C28_NoMoveAfterRelease ==
    [][\A w \in Range(windows) :
          /\ MouseUp(w) => ~SessionOpen(geom'[w])
          /\ (~SessionOpen(geom[w]) /\ ~Pressed(w)) => ~SessionOpen(geom'[w])
          /\ (~SessionOpen(geom[w]) /\ Moved(w)) => Geometry(geom'[w]) = Geometry(geom[w])]_vars

\* the window has been resized from its right edge and released, and the
\* pointer has since moved inside the window, where no edge is hot
C28_Witness ==
    /\ windows = <<1>>
    /\ geom[1].width = init_width + 1
    /\ geom[1].resize_origin[1] = init_width
    /\ geom[1].is_window_resizing
    /\ ~SessionOpen(geom[1])
    /\ geom[1].last_hover_state = Hover({})
    /\ mouse_captured = None

\* C29: a close request for a window that is not, or no longer, in the
\* window list changes nothing (window list, active window, flags, geometry,
\* mode, taskbar and flyouts) and posts no window-list notification
C29_CloseAbsentIsNoOp ==
    [][\A w \in 1..MaxSpawn :
          ((CloseWindow(w) \/ SysKill(w)) /\ w \notin Range(windows)) =>
              /\ UNCHANGED <<windows, app_of, minimized, active_cls, maximized,
                             active_window, mode, geom, taskbar_windows, flyouts,
                             active_flyout, nextId>>
              /\ ~HasEvent(out', "ActiveWindowsChanged")]_vars

\* a window has been closed and another is still active; the last operation
\* forwarded nothing and posted no notification
C29_Witness ==
    /\ \E w \in 1..(nextId - 1) : w \notin Range(windows)
    /\ active_window \in Range(windows)
    /\ out = <<>>

\* C30: selecting, in a window list, a window that is no longer in the
\* manager's window list leaves the active window unchanged, and the active
\* window never refers to a window outside the list
C30_StaleSetActiveIsNoOp ==
    [][\A w \in 1..MaxSession :
          (OptionSelected(w) /\ w \notin Range(windows)) =>
              /\ active_window' = active_window
              /\ active_window' = None \/ active_window' \in Range(windows')]_vars

\* C31: every layout gives each window exactly one rectangle, in window
\* order, and no rectangle has a negative width or height, whatever the
\* number of windows and also when the container has zero width or zero
\* height
C31_NoNegativeExtent ==
    Arranged =>
        /\ Len(placements) = Len(windows)
        /\ \A k \in 1..Len(windows) :
               /\ Cardinality({j \in 1..Len(placements) :
                                   placements[j].widget = windows[k]}) = 1
               /\ placements[k].region.width >= 0
               /\ placements[k].region.height >= 0

\* five windows under bsp in a container without columns: five rectangles of
\* width 0 whose heights are not all 0
C31_Witness ==
    /\ Arranged
    /\ mode = "bsp"
    /\ viewport = [width |-> 0, height |-> 5]
    /\ Len(windows) = 5
    /\ Len(placements) = 5
    /\ \A k \in 1..5 : placements[k].region.width = 0
    /\ \E k \in 1..5 : placements[k].region.height > 0

\* C32: the window list is in z-order with the most recently activated
\* window last: when set_active_window, focus_cycle or focus_direction
\* leaves a window active, that window is the last element of windows
C32_ActivatedIsLast ==
    [][((\E w \in 1..MaxSpawn : SetActiveWindow(w))
            \/ (\E direction \in {1, -1} : FocusCycle(direction))
            \/ (\E d \in Directions : FocusDirection(d)))
        => (active_window' # None => active_window' = Last(windows'))]_vars

\* the grouping msg lists exactly the windows ws, each once and under its
\* own application, in the order of ws, and has no empty group
GroupsExactly(msg, ws, apps) ==
    /\ \A w \in Range(ws) :
           /\ apps[w] \in DOMAIN msg
           /\ Cardinality({i \in 1..Len(msg[apps[w]]) : msg[apps[w]][i] = w}) = 1
    /\ \A a \in DOMAIN msg :
           /\ msg[a] # <<>>
           /\ \A i \in 1..Len(msg[a]) :
                  /\ msg[a][i] \in Range(ws)
                  /\ apps[msg[a][i]] = a
           /\ \A i, j \in 1..Len(msg[a]) :
                  i < j => IndexOf(ws, msg[a][i]) < IndexOf(ws, msg[a][j])

\* C33: the grouping the taskbar receives after a spawn and after the close
\* of a window maps every application to exactly its windows that are
\* currently in the window list, in list order: every window appears once,
\* the closed window does not appear and no group is empty
C33_NotificationGroupsCurrentWindows ==
    [][\A w \in 1..MaxSpawn :
          ((\E app \in Apps : RunApp(app)) \/ (SysKill(w) /\ w \in Range(windows)))
              => /\ HasEvent(out', "ActiveWindowsChanged")
                 /\ GroupsExactly(taskbar_windows', windows', app_of')
                 /\ (SysKill(w) /\ w \in Range(windows)) =>
                        \A a \in DOMAIN taskbar_windows' :
                            w \notin Range(taskbar_windows'[a])]_vars

\* windows 1 and 3 of the terminal remain after the only notepad window, 2,
\* has been closed: the grouping has the terminal's two windows and no
\* notepad group
C33_Witness ==
    /\ windows = <<1, 3>>
    /\ app_of[1] = "terminal"
    /\ app_of[3] = "terminal"
    /\ HasEvent(out, "ActiveWindowsChanged")
    /\ Len(out) > 0
    /\ out[1].ev = "set_focus_none"
    /\ DOMAIN taskbar_windows = {"terminal"}
    /\ taskbar_windows["terminal"] = <<1, 3>>

\* C34: after every resize update, by the pointer on any edge or by a resize
\* key in any direction, the window's width is at least MIN_WIDTH and its
\* height at least MIN_HEIGHT
C34_ResizeKeepsMinimumSize ==
    [][\A w \in Range(windows) :
          geom'[w] # geom[w] =>
              /\ geom'[w].width >= MIN_WIDTH
              /\ geom'[w].height >= MIN_HEIGHT]_vars

\* a window shrunk with the pointer from the initial width to the minimum by
\* its left edge, on which the key that shrinks from the left has then
\* acted: the width is still the minimum
C34_Witness ==
    LET g == geom[1]
        centre == center_window(g, TerminalSize).offset
    IN  /\ windows = <<1>>
        /\ g.resize_origin[1] = init_width
        /\ g.width = MIN_WIDTH
        /\ g.height = init_height
        /\ g.user_offset = <<centre[1] + init_width - MIN_WIDTH, centre[2]>>
        /\ g.offset = g.user_offset

\* the modes and styles that n consecutive mode-change intents lead through
\* from the mode and the windows' styles st
RECURSIVE CycleTrail(_, _)
CycleTrail(st, n) ==
    IF n = 0 THEN <<>>
    ELSE LET next == cycle_window_mode(st)
         IN  <<next>> \o CycleTrail(next, n - 1)

\* C35: the mode is always one of the seven modes; a mode-change intent
\* installs the next mode of the cycle float, vstack, hstack, bsp, bsp_alt,
\* ultra_wide, ultra_tall, float; and from every state seven consecutive
\* mode changes, and no fewer, lead back to the mode they started from, with
\* the user_offset of every window as it was
C35_SevenModeChangesReturn ==
    /\ [](/\ mode \in Modes
          /\ \A trail \in {CycleTrail([mode |-> mode, geom |-> geom], 7)} :
                 /\ \A k \in 1..6 : trail[k].mode # mode
                 /\ trail[7].mode = mode
                 /\ \A k \in 1..7, w \in Range(windows) :
                        trail[k].geom[w].user_offset = geom[w].user_offset)
    /\ [][(mode' # mode /\ ChangeMode("None", FALSE)) =>
             /\ mode' = NextInCycle[mode]
             /\ [mode |-> mode', geom |-> geom']
                    = cycle_window_mode([mode |-> mode, geom |-> geom])]_vars

\* a window the user dragged in float mode, after six mode changes: the mode
\* is the last of the cycle and the window still has the user's offset
C35_Witness ==
    /\ mode = "ultra_tall"
    /\ out = <<Ev("update_mode", None)>>
    /\ windows = <<1>>
    /\ geom[1].user_offset \in DragOffsets
    /\ geom[1].offset = NoPair

\* C36: no window is at once dragging and in resize mode, or dragging with
\* an edge taken for a resize; a press on the title bar of a window in
\* resize mode starts no drag, and switching the resize mode on or off ends
\* the drag of that window
C36_NeverDraggingAndResizing ==
    /\ [](\A w \in Range(windows) :
              /\ ~(geom[w].is_window_dragging /\ geom[w].is_window_resizing)
              /\ ~(geom[w].is_window_dragging /\ geom[w].resize_edge # NoEdge))
    /\ [][\A w \in Range(windows) :
             /\ (geom[w].is_window_resizing
                   /\ \E event_xy \in TitlePositions, screen \in PointerPositions,
                         inside \in BOOLEAN :
                         MouseDown(w, TRUE, event_xy, screen, inside))
                    => ~geom'[w].is_window_dragging
             /\ KeyResizeMode(w) => ~geom'[w].is_window_dragging]_vars

\* the resize-mode key has ended a drag: the window is in resize mode and not
\* dragging, and still holds the pointer the drag captured, with no edge
\* taken
C36_Witness ==
    \E w \in Range(windows) :
        /\ geom[w].is_window_resizing
        /\ ~geom[w].is_window_dragging
        /\ geom[w].resize_edge = NoEdge
        /\ geom[w].drag_offset \in TitlePositions
        /\ mouse_captured = w

\* the right and the bottom edge of a window with styles g
RightEdge(g) == styles_offset(g)[1] + g.width

BottomEdge(g) == styles_offset(g)[2] + g.height

\* a pointer move is delivered to window w while it resizes by edge
ResizeMove(w, edge) ==
    /\ geom[w].is_window_resizing
    /\ geom[w].resize_edge = edge
    /\ w \notin minimized
    /\ \E screen \in ResizePositions, local \in ResizeLocals(Size(w)) :
           MouseMove(w, screen, local)

\* C37: a resize from the left edge keeps the right edge of the window
\* (x + width) where it was and a resize from the top edge keeps the bottom
\* edge (y + height) where it was, also when the size is clamped to the
\* minimum: every pointer update of a session leaves the edge where it was
\* when the edge was pressed, and every resize key leaves it where it was
\* before the key
C37_OppositeEdgeStays ==
    [][\A w \in Range(windows) :
          /\ ResizeMove(w, "left") =>
                 RightEdge(geom'[w]) = geom[w].resize_origin[3] + geom[w].resize_origin[1]
          /\ ResizeMove(w, "top") =>
                 BottomEdge(geom'[w]) = geom[w].resize_origin[4] + geom[w].resize_origin[2]
          /\ \A delta \in {1, -1} :
                 /\ KeyResize(w, delta, "left") => RightEdge(geom'[w]) = RightEdge(geom[w])
                 /\ KeyResize(w, delta, "top") =>
                        BottomEdge(geom'[w]) = BottomEdge(geom[w])]_vars

\* the window holds the pointer by its top edge and the pointer has gone
\* below the point where the height reaches the minimum: the window has the
\* minimum height and its bottom edge is where it was at the press
C37_Witness ==
    LET g == geom[1]
    IN  /\ windows = <<1>>
        /\ mouse_captured = 1
        /\ g.is_window_resizing
        /\ g.resize_edge = "top"
        /\ g.resize_origin[2] = init_height
        /\ g.height = MIN_HEIGHT
        /\ g.offset[2] = g.resize_origin[4] + init_height - MIN_HEIGHT

\* the styles a resize update gives a window pressed at start, by edge, with
\* the geometry origin (width, height, x, y), when the pointer is at screen;
\* cur are the window's styles before the update
ResizedFrom(cur, origin, start, edge, screen) ==
    LET dx == screen[1] - start[1]
        dy == screen[2] - start[2]
        w == IF origin[1] - dx >= MIN_WIDTH THEN origin[1] - dx ELSE MIN_WIDTH
        h == IF origin[2] - dy >= MIN_HEIGHT THEN origin[2] - dy ELSE MIN_HEIGHT
    IN  CASE edge = "right" ->
                 [width |-> IF origin[1] + dx >= MIN_WIDTH THEN origin[1] + dx
                            ELSE MIN_WIDTH,
                  height |-> cur.height, offset |-> cur.offset]
          [] edge = "left" ->
                 [width |-> w, height |-> cur.height,
                  offset |-> <<origin[3] + origin[1] - w, origin[4]>>]
          [] edge = "bottom" ->
                 [width |-> cur.width,
                  height |-> IF origin[2] + dy >= MIN_HEIGHT THEN origin[2] + dy
                             ELSE MIN_HEIGHT,
                  offset |-> cur.offset]
          [] edge = "top" ->
                 [width |-> cur.width, height |-> h,
                  offset |-> <<origin[3], origin[4] + origin[2] - h>>]

\* C38: in a drag session every pointer move puts the window's offset and
\* its user_offset at the pointer position minus the offset captured at the
\* press, and in a resize session every pointer move sets the size and the
\* offset from the geometry and the position captured at the press and the
\* pointer position alone; what the press captured changes only at a press
C38_UpdatesFromPressAndPointer ==
    [][\A w \in Range(windows) :
          LET g == geom[w]
              pressed == \E on_title, inside \in BOOLEAN, event_xy \in TitlePositions,
                            screen \in PointerPositions :
                            MouseDown(w, on_title, event_xy, screen, inside)
          IN  /\ \A screen \in PointerPositions, local \in LocalPositions :
                     (MouseMove(w, screen, local) /\ w \notin minimized) =>
                         /\ (g.is_window_dragging /\ ~g.is_window_resizing) =>
                                /\ geom'[w].offset = <<screen[1] - g.drag_offset[1],
                                                       screen[2] - g.drag_offset[2]>>
                                /\ geom'[w].user_offset = geom'[w].offset
                         /\ (g.is_window_resizing /\ g.resize_edge # NoEdge) =>
                                [width |-> geom'[w].width, height |-> geom'[w].height,
                                 offset |-> geom'[w].offset]
                                    = ResizedFrom(g, g.resize_origin, g.resize_start,
                                                  g.resize_edge, screen)
              /\ (\/ geom'[w].drag_offset # g.drag_offset
                  \/ geom'[w].resize_start # g.resize_start
                  \/ geom'[w].resize_origin # g.resize_origin) => pressed
              /\ geom'[w].resize_origin # g.resize_origin =>
                     geom'[w].resize_origin = <<g.width, g.height, styles_offset(g)[1],
                                                styles_offset(g)[2]>>]_vars

\* the window, dragged one column to the left earlier, holds the pointer by
\* its right edge and the pointer is one column to the right of the press:
\* the window is one column wider than at the press and has not moved
C38_Witness ==
    LET g == geom[1]
    IN  /\ windows = <<1>>
        /\ mouse_captured = 1
        /\ g.is_window_resizing
        /\ g.resize_edge = "right"
        /\ g.resize_start = <<10, 5>>
        /\ g.width = g.resize_origin[1] + 1
        /\ g.user_offset = <<9, 5>>
        /\ g.offset = <<9, 5>>

\* C39: in float mode a window that is not maximized and has no drag or
\* resize session open is displayed at its user_offset: its offset style
\* equals its user_offset
C39_FloatOffsetIsDisplayed ==
    \A w \in Range(windows) :
        (mode = "float" /\ w \notin maximized /\ ~SessionOpen(geom[w])) =>
            styles_offset(geom[w]) = geom[w].user_offset

\* C40: maximize and restore in a tiling mode and mode changes of a maximized
\* window do not change the size the window has in float mode: with no
\* resize, a window that is in float mode and not maximized has the width
\* and the height it was mounted with
C40_FloatSizeRemembered ==
    \A w \in Range(windows) :
        (mode = "float" /\ w \notin maximized) =>
            /\ geom[w].width = init_width
            /\ geom[w].height = init_height
====
